---- MODULE Spec2Model ----
(***************************************************************************)
(* Library synchronization engine of zotero-assistant-mcp-remote           *)
(* (packages/mcp/src/zotero.ts): type resolution, URL unwrapping, item     *)
(* creation with its field mapping and optional attachment, the two-phase  *)
(* attachment upload, version-stamped updates, the fulltext fallback       *)
(* search and the library statistics, each against a remote store whose    *)
(* answers are nondeterministic.                                           *)
(*                                                                         *)
(* JavaScript objects are records whose DOMAIN is the set of keys the      *)
(* object has; strings that the code takes apart are sequences of          *)
(* one-character strings.                                                  *)
(***************************************************************************)
EXTENDS Integers, Sequences, FiniteSets, TLC

VARIABLES
    \* ---- createItem / attachPdfFromUrl / attachSnapshot (one call) ----
    apc,        \* position of the call
    ain,        \* its arguments
    aloc,       \* its locals (itemKey, url after unwrapping, attachment key)
    items,      \* the store: the item records created so far, in order
    alog,       \* the requests the call sent, in order, with their outcome
    attres,     \* what the attachment function returned (NoResult before)
    aresult,    \* what the called operation returned or threw
    \* ---- updateItem (two concurrent calls on one item) ----
    item,       \* the store's copy of the item: version, tags, collections
    upc,        \* upc[c]: position of call c
    uchg,       \* uchg[c]: the changes argument of call c
    uread,      \* uread[c]: what call c read (raw.version, raw.data)
    ulog,       \* ulog[c]: the requests call c sent
    uresult,    \* uresult[c]: what call c returned
    usince,     \* usince[c]: the item was modified after call c read it
    \* ---- getItemFulltext (one call) ----
    fpc,        \* position of the call
    fin,        \* the target item and its children as the store holds them
    fatt,       \* orderedAttachments once computed
    flog,       \* the requests the call sent, in order, with their outcome
    fresult,    \* what the call returned
    \* ---- getLibraryStats (one call, three concurrent queries) ----
    spc,        \* position of the call
    sin,        \* the library as the store holds it
    sq,         \* sq[q]: the promise of query q (pending, fulfilled, rejected)
    sresult,    \* what the call returned
    \* ---- resolveItemType and unwrapUrl applied to one input ----
    ppc,        \* which application comes next
    pin,        \* the input
    pout,       \* the values returned so far, in order
    \* ---- createCollection (one call) ----
    cpc,        \* position of the call
    cin,        \* its arguments: name, parentCollectionId
    clog,       \* the requests the call sent, in order
    cresult     \* what the call returned

avars == <<apc, ain, aloc, items, alog, attres, aresult>>
uvars == <<item, upc, uchg, uread, ulog, uresult, usince>>
fvars == <<fpc, fin, fatt, flog, fresult>>
svars == <<spc, sin, sq, sresult>>
pvars == <<ppc, pin, pout>>
cvars == <<cpc, cin, clog, cresult>>
vars == <<avars, uvars, fvars, svars, pvars, cvars>>

\* The value of a result variable before the operation returned.
NoResult == [pending |-> TRUE]

Returned(r) == "pending" \notin DOMAIN r /\ "threw" \notin DOMAIN r

(***************************************************************************)
(* Strings as character sequences, and the two percent-decoders.           *)
(***************************************************************************)
HexDigits == {"0", "2", "3", "5", "A", "F"}

\* The character a %XX escape stands for, over the escapes used here.
HexChar(a, b) ==
    CASE <<a, b>> = <<"2", "5">> -> "%"
      [] <<a, b>> = <<"3", "A">> -> ":"
      [] <<a, b>> = <<"2", "F">> -> "/"
      [] <<a, b>> = <<"2", "0">> -> " "
      [] OTHER -> "?"

RECURSIVE PctDecode(_, _)
\* Percent-decoding of s. strict: a % that starts no %XX escape is an error
\* (decodeURIComponent); otherwise it is kept as it is (URLSearchParams).
PctDecode(s, strict) ==
    IF s = <<>> THEN [ok |-> TRUE, out |-> <<>>]
    ELSE IF Head(s) = "%"
    THEN IF Len(s) >= 3 /\ s[2] \in HexDigits /\ s[3] \in HexDigits
         THEN LET r == PctDecode(SubSeq(s, 4, Len(s)), strict)
              IN  [ok |-> r.ok, out |-> <<HexChar(s[2], s[3])>> \o r.out]
         ELSE IF strict THEN [ok |-> FALSE, out |-> <<>>]
         ELSE LET r == PctDecode(Tail(s), strict)
              IN  [ok |-> r.ok, out |-> <<"%">> \o r.out]
    ELSE LET r == PctDecode(Tail(s), strict)
         IN  [ok |-> r.ok,
              out |-> <<IF ~strict /\ Head(s) = "+" THEN " " ELSE Head(s)>> \o r.out]

decodeURIComponent(s) == PctDecode(s, TRUE)

StartsWith(s, p) == Len(s) >= Len(p) /\ SubSeq(s, 1, Len(p)) = p

Http == <<"h", "t", "t", "p", ":", "/", "/">>
Https == <<"h", "t", "t", "p", "s", ":", "/", "/">>

(***************************************************************************)
(* resolveItemType.  A type name is the sequence of its characters; a      *)
(* JavaScript value is [string |-> characters], [object |-> name] for an   *)
(* object or function, or Undefined.                                       *)
(***************************************************************************)
LowerLetters ==
    <<"a", "b", "c", "d", "e", "f", "g", "h", "i", "j", "k", "l", "m",
      "n", "o", "p", "q", "r", "s", "t", "u", "v", "w", "x", "y", "z">>

UpperLetters ==
    <<"A", "B", "C", "D", "E", "F", "G", "H", "I", "J", "K", "L", "M",
      "N", "O", "P", "Q", "R", "S", "T", "U", "V", "W", "X", "Y", "Z">>

\* String.prototype.toLowerCase, over ASCII.
toLowerCase(s) ==
    [i \in 1..Len(s) |->
        IF \E k \in 1..26 : UpperLetters[k] = s[i]
        THEN LowerLetters[CHOOSE k \in 1..26 : UpperLetters[k] = s[i]]
        ELSE s[i]]

\* The own properties of the ITEM_TYPE_MAP object literal.
ITEM_TYPE_MAP ==
    (<<"a", "r", "t", "i", "c", "l", "e">>
        :> <<"j", "o", "u", "r", "n", "a", "l", "A", "r", "t", "i", "c", "l", "e">>)
    @@ (<<"j", "o", "u", "r", "n", "a", "l">>
        :> <<"j", "o", "u", "r", "n", "a", "l", "A", "r", "t", "i", "c", "l", "e">>)
    @@ (<<"b", "o", "o", "k">>
        :> <<"b", "o", "o", "k">>)
    @@ (<<"c", "h", "a", "p", "t", "e", "r">>
        :> <<"b", "o", "o", "k", "S", "e", "c", "t", "i", "o", "n">>)
    @@ (<<"c", "o", "n", "f", "e", "r", "e", "n", "c", "e">>
        :> <<"c", "o", "n", "f", "e", "r", "e", "n", "c", "e", "P", "a", "p", "e", "r">>)
    @@ (<<"t", "h", "e", "s", "i", "s">>
        :> <<"t", "h", "e", "s", "i", "s">>)
    @@ (<<"r", "e", "p", "o", "r", "t">>
        :> <<"r", "e", "p", "o", "r", "t">>)
    @@ (<<"w", "e", "b", "p", "a", "g", "e">>
        :> <<"w", "e", "b", "p", "a", "g", "e">>)
    @@ (<<"b", "l", "o", "g">>
        :> <<"b", "l", "o", "g", "P", "o", "s", "t">>)
    @@ (<<"n", "e", "w", "s">>
        :> <<"n", "e", "w", "s", "p", "a", "p", "e", "r", "A", "r", "t", "i", "c", "l", "e">>)
    @@ (<<"m", "a", "g", "a", "z", "i", "n", "e">>
        :> <<"m", "a", "g", "a", "z", "i", "n", "e", "A", "r", "t", "i", "c", "l", "e">>)
    @@ (<<"d", "o", "c", "u", "m", "e", "n", "t">>
        :> <<"d", "o", "c", "u", "m", "e", "n", "t">>)
    @@ (<<"l", "e", "g", "a", "l">>
        :> <<"s", "t", "a", "t", "u", "t", "e">>)
    @@ (<<"c", "a", "s", "e">>
        :> <<"c", "a", "s", "e">>)
    @@ (<<"p", "a", "t", "e", "n", "t">>
        :> <<"p", "a", "t", "e", "n", "t">>)
    @@ (<<"v", "i", "d", "e", "o">>
        :> <<"v", "i", "d", "e", "o", "R", "e", "c", "o", "r", "d", "i", "n", "g">>)
    @@ (<<"p", "o", "d", "c", "a", "s", "t">>
        :> <<"p", "o", "d", "c", "a", "s", "t">>)
    @@ (<<"p", "r", "e", "s", "e", "n", "t", "a", "t", "i", "o", "n">>
        :> <<"p", "r", "e", "s", "e", "n", "t", "a", "t", "i", "o", "n">>)

\* The properties every object literal inherits from Object.prototype.
ObjectPrototypeKeys ==
    {<<"c", "o", "n", "s", "t", "r", "u", "c", "t", "o", "r">>,
     <<"_", "_", "p", "r", "o", "t", "o", "_", "_">>,
     <<"h", "a", "s", "O", "w", "n", "P", "r", "o", "p", "e", "r", "t", "y">>,
     <<"i", "s", "P", "r", "o", "t", "o", "t", "y", "p", "e", "O", "f">>,
     <<"p", "r", "o", "p", "e", "r", "t", "y", "I", "s", "E", "n", "u", "m", "e", "r", "a", "b", "l", "e">>,
     <<"t", "o", "L", "o", "c", "a", "l", "e", "S", "t", "r", "i", "n", "g">>,
     <<"t", "o", "S", "t", "r", "i", "n", "g">>,
     <<"v", "a", "l", "u", "e", "O", "f">>,
     <<"_", "_", "d", "e", "f", "i", "n", "e", "G", "e", "t", "t", "e", "r", "_", "_">>,
     <<"_", "_", "d", "e", "f", "i", "n", "e", "S", "e", "t", "t", "e", "r", "_", "_">>,
     <<"_", "_", "l", "o", "o", "k", "u", "p", "G", "e", "t", "t", "e", "r", "_", "_">>,
     <<"_", "_", "l", "o", "o", "k", "u", "p", "S", "e", "t", "t", "e", "r", "_", "_">>}

Undefined == [undefined |-> TRUE]

\* ITEM_TYPE_MAP[key]: an own property, else an inherited one, else undefined.
ITEM_TYPE_MAP_get(key) ==
    IF key \in DOMAIN ITEM_TYPE_MAP THEN [string |-> ITEM_TYPE_MAP[key]]
    ELSE IF key \in ObjectPrototypeKeys THEN [object |-> key]
    ELSE Undefined

\* v || w
OrElse(v, w) ==
    IF v = Undefined \/ v = [string |-> <<>>] THEN w ELSE v

\* resolveItemType without the lower-casing of its input.
resolveItemTypeCaseSensitive(simple) ==
    OrElse(ITEM_TYPE_MAP_get(simple), [string |-> simple])

\* Lines 92-94.
resolveItemType(simple) ==
    OrElse(ITEM_TYPE_MAP_get(toLowerCase(simple)), [string |-> simple])

(***************************************************************************)
(* unwrapUrl.  A URL is [text, parses, pathname, query]: text names it,    *)
(* parses says whether new URL(raw) succeeds, pathname is the list of the  *)
(* path's segments ("/a/b" is <<"a","b">>, "/" is <<"">>, "/a/" is         *)
(* <<"a","">>) and query the list of <<name, value as written>> pairs.     *)
(***************************************************************************)
URL_PARAM_NAMES == <<"url", "source", "target", "uri", "link", "src">>

\* Path segments that WRAPPER_PATTERNS matches, among the segments used here.
WrapperSegments == {"pdfrenderer", "screenshot", "proxy.php"}

WRAPPER_PATTERNS_test(pathname) ==
    \E i \in 1..Len(pathname) : pathname[i] \in WrapperSegments

\* parsed.searchParams.get(param): the first pair of that name, form-decoded;
\* <<>> stands for null and for the empty string alike (both are falsy).
searchParamsGet(query, param) ==
    LET hits == {i \in 1..Len(query) : query[i][1] = param}
    IN  IF hits = {} THEN <<>>
        ELSE LET first == CHOOSE i \in hits : \A j \in hits : i <= j
             IN  PctDecode(query[first][2], FALSE).out

\* parsed.pathname.replace(/^\/|\/$/g, "").split("/").length
SegmentsLength(pathname) ==
    IF Len(pathname) > 1 /\ pathname[Len(pathname)] = "" THEN Len(pathname) - 1
    ELSE Len(pathname)

RECURSIVE unwrapFrom(_, _)
\* The for loop of unwrapUrl from candidate parameter number k on.
unwrapFrom(raw, k) ==
    IF k > Len(URL_PARAM_NAMES) THEN [kind |-> "raw", url |-> raw]
    ELSE LET candidate == searchParamsGet(raw.query, URL_PARAM_NAMES[k])
         IN  IF candidate = <<>> THEN unwrapFrom(raw, k + 1)
             ELSE LET decoded == decodeURIComponent(candidate)
                  IN  IF ~decoded.ok THEN [kind |-> "throw", message |-> "URI malformed"]
                      ELSE IF StartsWith(decoded.out, Http) \/ StartsWith(decoded.out, Https)
                      THEN IF WRAPPER_PATTERNS_test(raw.pathname)
                           THEN [kind |-> "inner", str |-> decoded.out]
                           ELSE IF SegmentsLength(raw.pathname) >= 2
                           THEN [kind |-> "inner", str |-> decoded.out]
                           ELSE unwrapFrom(raw, k + 1)
                      ELSE unwrapFrom(raw, k + 1)

unwrapUrl(raw) ==
    IF ~raw.parses THEN [kind |-> "raw", url |-> raw]
    ELSE unwrapFrom(raw, 1)

(***************************************************************************)
(* resolveItemType and unwrapUrl on their own: the function is applied to  *)
(* one input; resolveItemType is then applied once more to what it         *)
(* returned.                                                               *)
(***************************************************************************)
\* Every upper/lower-case spelling of a name.
Spellings(name) ==
    {[i \in 1..Len(name) |->
        IF i \in caps /\ \E k \in 1..26 : LowerLetters[k] = name[i]
        THEN UpperLetters[CHOOSE k \in 1..26 : LowerLetters[k] = name[i]]
        ELSE name[i]] : caps \in SUBSET (1..Len(name))}

\* Type names that are not spellings of a key of ITEM_TYPE_MAP: the canonical
\* names that are no keys, other names, names of inherited properties, "".
OtherTypeNames ==
    {<<"j", "o", "u", "r", "n", "a", "l", "A", "r", "t", "i", "c", "l", "e">>,
     <<"b", "o", "o", "k", "S", "e", "c", "t", "i", "o", "n">>,
     <<"c", "o", "n", "f", "e", "r", "e", "n", "c", "e", "P", "a", "p", "e", "r">>,
     <<"b", "l", "o", "g", "P", "o", "s", "t">>,
     <<"n", "e", "w", "s", "p", "a", "p", "e", "r", "A", "r", "t", "i", "c", "l", "e">>,
     <<"m", "a", "g", "a", "z", "i", "n", "e", "A", "r", "t", "i", "c", "l", "e">>,
     <<"s", "t", "a", "t", "u", "t", "e">>,
     <<"v", "i", "d", "e", "o", "R", "e", "c", "o", "r", "d", "i", "n", "g">>,
     <<"n", "o", "t", "e">>,
     <<"N", "o", "t", "e">>,
     <<"x", "y", "z">>,
     <<"c", "o", "n", "s", "t", "r", "u", "c", "t", "o", "r">>,
     <<"C", "o", "n", "s", "t", "r", "u", "c", "t", "o", "r">>,
     <<"_", "_", "p", "r", "o", "t", "o", "_", "_">>,
     <<"t", "o", "S", "t", "r", "i", "n", "g">>,
     <<"v", "a", "l", "u", "e", "O", "f">>,
     <<"h", "a", "s", "O", "w", "n", "P", "r", "o", "p", "e", "r", "t", "y">>,
     <<>>}

TypeNames == UNION {Spellings(name) : name \in DOMAIN ITEM_TYPE_MAP} \cup OtherTypeNames

PIdle ==
    /\ ppc = "off"
    /\ pin = <<>>
    /\ pout = <<>>

PInitResolve ==
    /\ ppc = "resolve"
    /\ pin \in TypeNames
    /\ pout = <<>>

\* resolveItemType(simple)
ResolveItemType ==
    /\ ppc = "resolve"
    /\ pout' = <<resolveItemType(pin)>>
    /\ ppc' = "again"
    /\ UNCHANGED pin
    /\ UNCHANGED <<avars, uvars, fvars, svars, cvars>>

\* resolveItemType(resolveItemType(simple)): a value that is no string has no
\* toLowerCase, and the call throws a TypeError.
ResolveItemTypeAgain ==
    /\ ppc = "again"
    /\ pout' = Append(pout, IF "string" \in DOMAIN pout[1]
                            THEN resolveItemType(pout[1].string)
                            ELSE [threw |-> TRUE, message |-> "TypeError"])
    /\ ppc' = "done"
    /\ UNCHANGED pin
    /\ UNCHANGED <<avars, uvars, fvars, svars, cvars>>

NextResolve == ResolveItemType \/ ResolveItemTypeAgain

MaxParams == 2

CharsInnerTwice ==
    <<"h", "t", "t", "p", "s", "%", "2", "5", "3", "A", "%", "2", "5", "2", "F",
      "%", "2", "5", "2", "F", "x">>
CharsInnerPlain == <<"h", "t", "t", "p", "s", ":", "/", "/", "x">>
\* The encoding of https://x%20, a URL with an escape of its own.
CharsInnerEscaped ==
    <<"h", "t", "t", "p", "s", "%", "3", "A", "%", "2", "F", "%", "2", "F", "x",
      "%", "2", "5", "2", "0">>
Chars100Pct == <<"1", "0", "0", "%", "2", "5">>
CharsInner == <<"h", "t", "t", "p", "s", "%", "3", "A", "%", "2", "F", "%", "2", "F", "x">>

\* Query parameters as written in the URL: a candidate name first in the
\* list, one last in the list, and a name that is no candidate; as value an
\* encoded URL, a URL encoded twice, a URL not encoded, the encoding of a URL
\* that has an escape, a percentage, a word, nothing.
QueryPairs ==
    {<<name, value>> : name \in {"url", "src", "q"},
                       value \in {CharsInner, CharsInnerTwice, CharsInnerPlain,
                                  CharsInnerEscaped, Chars100Pct, <<"x">>, <<>>}}

\* Paths: "/", "/view", "/a/", "/a/b", "/a//", "/pdfrenderer".
Pathnames ==
    {<<"">>, <<"view">>, <<"a", "">>, <<"a", "b">>, <<"a", "", "">>, <<"pdfrenderer">>}

NoUrl == [text |-> "", parses |-> FALSE, pathname |-> <<>>, query |-> <<>>]
UnparseableUrl ==
    [text |-> "not a url", parses |-> FALSE, pathname |-> <<>>, query |-> <<>>]

\* The arguments of unwrapUrl: every path with up to MaxParams parameters,
\* a text that is no URL, the empty text.
UnwrapInputs ==
    {[text |-> "https://h/path?query", parses |-> TRUE, pathname |-> p, query |-> q] :
        p \in Pathnames, q \in UNION {[1..k -> QueryPairs] : k \in 0..MaxParams}}
    \cup {UnparseableUrl, NoUrl}

PInitUnwrap ==
    /\ ppc = "unwrap"
    /\ pin \in UnwrapInputs
    /\ pout = <<>>

\* unwrapUrl(raw)
UnwrapUrl ==
    /\ ppc = "unwrap"
    /\ pout' = <<unwrapUrl(pin)>>
    /\ ppc' = "done"
    /\ UNCHANGED pin
    /\ UNCHANGED <<avars, uvars, fvars, svars, cvars>>

NextUnwrap == UnwrapUrl

(***************************************************************************)
(* createItem, attachPdfFromUrl, attachSnapshot: one call, one step per    *)
(* awaited request.                                                        *)
(***************************************************************************)
PlainUrl ==
    [text |-> "https://example.org/paper.pdf", parses |-> TRUE,
     pathname |-> <<"paper.pdf">>, query |-> <<>>]
WrappedUrl ==
    [text |-> "https://r.io/pdfrenderer?url=https%3A%2F%2Fx", parses |-> TRUE,
     pathname |-> <<"pdfrenderer">>, query |-> <<<<"url", CharsInner>>>>]
MalformedUrl ==
    [text |-> "https://r.io/view?url=100%25", parses |-> TRUE,
     pathname |-> <<"view">>, query |-> <<<<"url", Chars100Pct>>>>]
Urls == {PlainUrl, WrappedUrl, MalformedUrl, UnparseableUrl}

\* if (pdfUrl), if (snapshotUrl): undefined and "" are falsy.
Truthy(u) == u.text # ""

\* The key of the existing parent item of a direct attach call.
ParentKey == 1

\* An object without keys.
NoKeys == [k \in {} |-> <<>>]

\* createItem's params without pdfUrl and snapshotUrl; a key that is not
\* given is absent. Type and author names are character sequences.
ArticleParams ==
    [title |-> "T", itemType |-> <<"a", "r", "t", "i", "c", "l", "e">>,
     authors |-> <<<<"J", "a", "n", "e", " ", "D", "o", "e">>>>, tags |-> <<"x">>]
MinimalParams == [title |-> "T"]
UnknownTypeParams ==
    [title |-> "T", itemType |-> <<"n", "o", "s", "u", "c", "h">>, tags |-> <<"x">>]
BlogParams ==
    [title |-> "B", itemType |-> <<"B", "l", "o", "g">>, date |-> "2024-05-01", url |-> "https://b.io/p",
     abstract |-> "A", publication |-> "P", volume |-> "1", doi |-> "10.1/x", extra |-> "",
     authors |-> <<<<"P", "l", "a", "t", "o">>,
                   <<" ", "A", "d", "a", " ", " ", "K", "i", "n", "g", " ", "L", "o", "v", "e", "l", "a", "c", "e", " ">>>>,
     collectionId |-> "C1"]
\* Every optional field given, for a type whose template declares none of them.
NoteParams ==
    [title |-> "N", itemType |-> <<"n", "o", "t", "e">>, date |-> "2024", url |-> "https://n.io",
     abstract |-> "A", publication |-> "P", volume |-> "1", issue |-> "2", pages |-> "3-4",
     doi |-> "10.1/n", extra |-> "E", authors |-> <<<<"P", "l", "a", "t", "o">>>>]

CreateParams == {ArticleParams, MinimalParams, UnknownTypeParams, BlogParams, NoteParams}

\* createNote's content and tags; the parent is ParentKey.
NoteInputs ==
    [content : {"<p>n</p>", ""}, tags : {<<>>, <<"x">>, <<"x", "y">>}]

AttachInputs ==
    [op : {"createItem"}, params : CreateParams,
     pdfUrl : Urls \cup {NoUrl}, snapshotUrl : Urls \cup {NoUrl}]
    \cup [op : {"attachPdfFromUrl"}, params : {NoKeys}, pdfUrl : Urls, snapshotUrl : {NoUrl}]
    \cup [op : {"attachSnapshot"}, params : {NoKeys}, pdfUrl : {NoUrl}, snapshotUrl : Urls]
    \cup [op : {"createNote"}, params : NoteInputs, pdfUrl : {NoUrl}, snapshotUrl : {NoUrl}]

NoLocals == [itemKey |-> 0, kind |-> "", raw |-> NoUrl, url |-> [kind |-> ""], attachmentKey |-> 0]

ParentItem == [key |-> ParentKey, itemType |-> "webpage", parentItem |-> 0, file |-> FALSE]

AInit ==
    /\ ain \in AttachInputs
    /\ apc = (IF ain.op = "createItem" THEN "template"
              ELSE IF ain.op = "createNote" THEN "note_template"
              ELSE "unwrap")
    /\ aloc = (IF ain.op = "createItem" THEN NoLocals
               ELSE IF ain.op = "createNote" THEN [NoLocals EXCEPT !.itemKey = ParentKey]
               ELSE [NoLocals EXCEPT
                        !.itemKey = ParentKey,
                        !.kind = (IF ain.op = "attachPdfFromUrl" THEN "pdf" ELSE "snapshot"),
                        !.raw = (IF ain.op = "attachPdfFromUrl" THEN ain.pdfUrl
                                 ELSE ain.snapshotUrl)])
    /\ items = (IF ain.op = "createItem" THEN <<>> ELSE <<ParentItem>>)
    /\ alog = <<>>
    /\ attres = NoResult
    /\ aresult = NoResult

AIdle ==
    /\ apc = "off"
    /\ ain = [op |-> "none", params |-> NoKeys, pdfUrl |-> NoUrl, snapshotUrl |-> NoUrl]
    /\ aloc = NoLocals
    /\ items = <<>>
    /\ alog = <<>>
    /\ attres = NoResult
    /\ aresult = NoResult

Sent(req, outcome) == Append(alog, [req |-> req, outcome |-> outcome])

\* The key the store assigns to the next created record.
NewKey == Len(items) + 1

\* createItem's result object once the item is persisted (lines 367-372).
CreatedResult(itemKey) ==
    [success |-> TRUE, item_key |-> itemKey, message |-> "Created"]

\* The two-argument log entry extended with the attachment function that
\* sends the request and the parent item it works for.
SentBy(req, outcome) ==
    Append(alog, [req |-> req, outcome |-> outcome, kind |-> aloc.kind,
                  parentItem |-> aloc.itemKey])

\* itemType = "webpage" when params has none (line 282).
ItemTypeOf(params) ==
    IF "itemType" \in DOMAIN params THEN params.itemType
    ELSE <<"w", "e", "b", "p", "a", "g", "e">>

\* What api().template(type).get().getData() answers for the types the store
\* knows, among the types used here.
Templates ==
    (<<"j", "o", "u", "r", "n", "a", "l", "A", "r", "t", "i", "c", "l", "e">>
        :> [itemType |-> "journalArticle", title |-> "",
            creators |-> <<[creatorType |-> "author", firstName |-> <<>>, lastName |-> <<>>]>>,
            abstractNote |-> "", publicationTitle |-> "", volume |-> "", issue |-> "",
            pages |-> "", date |-> "", DOI |-> "", url |-> "", extra |-> "",
            tags |-> <<>>, collections |-> <<>>])
    @@ (<<"w", "e", "b", "p", "a", "g", "e">>
        :> [itemType |-> "webpage", title |-> "",
            creators |-> <<[creatorType |-> "author", firstName |-> <<>>, lastName |-> <<>>]>>,
            abstractNote |-> "", websiteTitle |-> "", date |-> "", url |-> "", extra |-> "",
            tags |-> <<>>, collections |-> <<>>])
    @@ (<<"b", "l", "o", "g", "P", "o", "s", "t">>
        :> [itemType |-> "blogPost", title |-> "",
            creators |-> <<[creatorType |-> "author", firstName |-> <<>>, lastName |-> <<>>]>>,
            abstractNote |-> "", blogTitle |-> "", date |-> "", url |-> "", extra |-> "",
            tags |-> <<>>, collections |-> <<>>])
    @@ (<<"n", "o", "t", "e">>
        :> [itemType |-> "note", note |-> "", tags |-> <<>>, collections |-> <<>>])

\* The store has a template for the type.
TemplateKnown(zoteroType) ==
    "string" \in DOMAIN zoteroType /\ zoteroType.string \in DOMAIN Templates

\* err.message of a failed template request.
TemplateErrMessage(o) == IF o = "invalid" THEN "400: Bad Request" ELSE "fetch failed"

\* TemplateFailed without the message of the caught error.
TemplateFailedNoMessage(zoteroType, message) ==
    [success |-> FALSE,
     error |-> [text |-> "Invalid item type '${zoteroType}'", zoteroType |-> zoteroType]]

\* Lines 304-309: the result when the template request failed; the error
\* text is the template literal with its two interpolated values.
TemplateFailed(zoteroType, message) ==
    [success |-> FALSE,
     error |-> [text |-> "Invalid item type '${zoteroType}': ${err.message}",
                zoteroType |-> zoteroType, message |-> message]]

\* createItem lines 299-309: resolve the type and request its template.
CreateItemTemplate ==
    /\ apc = "template"
    /\ LET zoteroType == resolveItemType(ItemTypeOf(ain.params))
       IN  \E o \in (IF TemplateKnown(zoteroType) THEN {"ok", "throw"}
                     ELSE {"invalid", "throw"}) :
            /\ alog' = Sent("template", o)
            /\ IF o = "ok"
               THEN /\ apc' = "post"
                    /\ aresult' = aresult
               ELSE /\ apc' = "done"
                    /\ aresult' = TemplateFailed(zoteroType, TemplateErrMessage(o))
    /\ UNCHANGED <<ain, aloc, items, attres>>
    /\ UNCHANGED <<uvars, fvars, svars, pvars, cvars>>

\* template[key] = value
SetKey(template, key, value) ==
    [k \in DOMAIN template \cup {key} |-> IF k = key THEN value ELSE template[k]]

\* if (value): the key is given and its text is not empty.
Has(params, key) == key \in DOMAIN params /\ params[key] # ""

\* SetDeclared without the look at the template.
SetGiven(template, params, key, field) ==
    IF Has(params, key) THEN SetKey(template, field, params[key]) ELSE template

\* if (value && field in template) template[field] = value
SetDeclared(template, params, key, field) ==
    IF Has(params, key) /\ field \in DOMAIN template
    THEN SetKey(template, field, params[key])
    ELSE template

\* The white space characters, among the characters used here.
WhiteSpace == {" ", "\t"}

RECURSIVE TrimStart(_)
TrimStart(s) == IF s # <<>> /\ Head(s) \in WhiteSpace THEN TrimStart(Tail(s)) ELSE s

RECURSIVE TrimEnd(_)
TrimEnd(s) ==
    IF s # <<>> /\ s[Len(s)] \in WhiteSpace THEN TrimEnd(SubSeq(s, 1, Len(s) - 1)) ELSE s

\* Trim that strips the leading white space only.
TrimStartOnly(s) == TrimStart(s)

\* String.prototype.trim
Trim(s) == TrimEnd(TrimStart(s))

RECURSIVE SplitFrom(_, _)
\* The parts of s after the characters in word: a run of white space ends a
\* part.
SplitFrom(s, word) ==
    IF s = <<>> THEN <<word>>
    ELSE IF Head(s) \in WhiteSpace THEN <<word>> \o SplitFrom(TrimStart(s), <<>>)
    ELSE SplitFrom(Tail(s), Append(word, Head(s)))

\* s.split(/\s+/)
SplitSpaces(s) == SplitFrom(s, <<>>)

RECURSIVE JoinSpace(_)
\* parts.join(" ")
JoinSpace(parts) ==
    IF parts = <<>> THEN <<>>
    ELSE IF Len(parts) = 1 THEN parts[1]
    ELSE parts[1] \o <<" ">> \o JoinSpace(Tail(parts))

\* Lines 330-340: one creator per author name.
Creator(name) ==
    LET parts == SplitSpaces(Trim(name))
    IN  IF Len(parts) >= 2
        THEN [creatorType |-> "author",
              firstName |-> JoinSpace(SubSeq(parts, 1, Len(parts) - 1)),
              lastName |-> parts[Len(parts)]]
        ELSE [creatorType |-> "author", name |-> name]

\* Lines 311-352: the template filled from params.
FillTemplate(template, params) ==
    LET t1 == SetKey(template, "title", params.title)
        t2 == IF Has(params, "date") THEN SetKey(t1, "date", params.date) ELSE t1
        t3 == SetDeclared(t2, params, "url", "url")
        t4 == SetDeclared(t3, params, "abstract", "abstractNote")
        t5 == SetDeclared(t4, params, "extra", "extra")
        t6 == IF ~Has(params, "publication") THEN t5
              ELSE IF "publicationTitle" \in DOMAIN t5
              THEN SetKey(t5, "publicationTitle", params.publication)
              ELSE IF "blogTitle" \in DOMAIN t5
              THEN SetKey(t5, "blogTitle", params.publication)
              ELSE IF "websiteTitle" \in DOMAIN t5
              THEN SetKey(t5, "websiteTitle", params.publication)
              ELSE t5
        t7 == SetDeclared(t6, params, "volume", "volume")
        t8 == SetDeclared(t7, params, "issue", "issue")
        t9 == SetDeclared(t8, params, "pages", "pages")
        t10 == SetDeclared(t9, params, "doi", "DOI")
        t11 == IF "authors" \in DOMAIN params /\ Len(params.authors) > 0
                  /\ "creators" \in DOMAIN t10
               THEN SetKey(t10, "creators",
                           [i \in 1..Len(params.authors) |-> Creator(params.authors[i])])
               ELSE t10
        t12 == IF "tags" \in DOMAIN params /\ Len(params.tags) > 0
               THEN SetKey(t11, "tags",
                           [i \in 1..Len(params.tags) |-> [tag |-> params.tags[i]]])
               ELSE t11
    IN  IF "collectionId" \in DOMAIN params /\ params.collectionId # ""
        THEN SetKey(t12, "collections", <<params.collectionId>>)
        ELSE t12

\* AttachmentChoice with the snapshot tried first.
AttachmentChoiceSnapshotFirst(pdfUrl, snapshotUrl) ==
    IF Truthy(snapshotUrl) THEN "snapshot" ELSE IF Truthy(pdfUrl) THEN "pdf" ELSE ""

\* if (pdfUrl) ... else if (snapshotUrl) ..., lines 375-393: the attachment
\* function createItem calls, "" for none.
AttachmentChoice(pdfUrl, snapshotUrl) ==
    IF Truthy(pdfUrl) THEN "pdf" ELSE IF Truthy(snapshotUrl) THEN "snapshot" ELSE ""

\* createItem lines 354-399: persist the item, then pick the attachment.
CreateItemPost ==
    /\ apc = "post"
    /\ \E o \in {"created", "none", "throw"} :
        /\ alog' = Sent("post_item", o)
        /\ IF o = "created"
           THEN LET zoteroType == resolveItemType(ItemTypeOf(ain.params))
                    template == FillTemplate(Templates[zoteroType.string], ain.params)
                    kind == AttachmentChoice(ain.pdfUrl, ain.snapshotUrl)
                IN  /\ items' = Append(items, [key |-> NewKey, itemType |-> "item",
                                               parentItem |-> 0, file |-> FALSE,
                                               version |-> 1, data |-> template])
                    /\ IF kind # ""
                       THEN /\ apc' = "unwrap"
                            /\ aloc' = [aloc EXCEPT
                                           !.itemKey = NewKey, !.kind = kind,
                                           !.raw = (IF kind = "pdf" THEN ain.pdfUrl
                                                    ELSE ain.snapshotUrl)]
                            /\ aresult' = aresult
                       ELSE /\ apc' = "done"
                            /\ aloc' = [aloc EXCEPT !.itemKey = NewKey]
                            /\ aresult' = CreatedResult(NewKey)
           ELSE /\ apc' = "done"
                /\ aresult' = [success |-> FALSE,
                               error |-> IF o = "none" THEN <<"Failed to create item">>
                                         ELSE <<"fetch failed">>]
                /\ UNCHANGED <<items, aloc>>
    /\ UNCHANGED <<ain, attres>>
    /\ UNCHANGED <<uvars, fvars, svars, pvars, cvars>>

\* What the called operation returns when the attachment function returns r.
OuterResult(r) ==
    IF ain.op = "createItem"
    THEN CreatedResult(aloc.itemKey)
         @@ (IF aloc.kind = "pdf" THEN "pdf_attachment" :> r ELSE "snapshot_attachment" :> r)
    ELSE r

\* What the called operation does when the attachment function throws:
\* createItem's catch (lines 396-398) turns it into a failure; a direct call
\* lets it escape.
OuterThrow(message) ==
    IF ain.op = "createItem" THEN [success |-> FALSE, error |-> <<message>>]
    ELSE [threw |-> TRUE, message |-> message]

AttachReturns(r) ==
    /\ apc' = "done"
    /\ attres' = r
    /\ aresult' = OuterResult(r)

AttachPrefix == IF aloc.kind = "pdf" THEN "Failed to attach PDF: " ELSE "Failed to attach snapshot: "

\* The catch block of the attachment function (lines 522-525, 662-668).
AttachCaught(message) == [success |-> FALSE, error |-> <<AttachPrefix, message>>]

\* Lines 413 and 540: unwrapUrl runs before the try block.
AttachUnwrap ==
    /\ apc = "unwrap"
    /\ LET u == unwrapUrl(aloc.raw)
       IN  IF u.kind = "throw"
           THEN /\ apc' = "done"
                /\ aresult' = OuterThrow(u.message)
                /\ UNCHANGED <<aloc, attres>>
           ELSE /\ apc' = "fetch"
                /\ aloc' = [aloc EXCEPT !.url = u]
                /\ UNCHANGED <<aresult, attres>>
    /\ UNCHANGED <<ain, items, alog>>
    /\ UNCHANGED <<uvars, fvars, svars, pvars, cvars>>

\* DownloadRejected without the look at the body length.
DownloadRejectedOnStatusOnly(o) == o = "notok"

\* if (!response.ok) and if (buffer.length === 0), lines 424-440 and 551-574:
\* the response is not OK, or its body is empty.
DownloadRejected(o) == o \in {"notok", "empty"}

\* Lines 415-429 and 542-556: request the source and look at the status; an
\* OK response leaves the call waiting for the body ("headers").
AttachFetch ==
    /\ apc = "fetch"
    /\ \E o \in {"headers", "notok", "throw"} :
        /\ alog' = SentBy("fetch", o)
        /\ IF o = "throw"
           THEN AttachReturns(AttachCaught("fetch failed"))
           ELSE IF DownloadRejected(o)
           THEN AttachReturns([success |-> FALSE,
                               error |-> <<"Failed to download: HTTP ", "status">>])
           ELSE /\ apc' = "body"
                /\ UNCHANGED <<attres, aresult>>
    /\ UNCHANGED <<ain, aloc, items>>
    /\ UNCHANGED <<uvars, fvars, svars, pvars, cvars>>

\* Lines 436-440 and 570-574: await response.arrayBuffer() / response.text(),
\* then the test of the body's length.
AttachReadBody ==
    /\ apc = "body"
    /\ \E o \in {"ok", "empty", "throw"} :
        /\ alog' = [alog EXCEPT ![Len(alog)].outcome = o]
        /\ IF o = "throw"
           THEN AttachReturns(AttachCaught("fetch failed"))
           ELSE IF DownloadRejected(o)
           THEN AttachReturns([success |-> FALSE,
                               error |-> <<"Downloaded body is empty (0 bytes)">>])
           ELSE /\ apc' = "register"
                /\ UNCHANGED <<attres, aresult>>
    /\ UNCHANGED <<ain, aloc, items>>
    /\ UNCHANGED <<uvars, fvars, svars, pvars, cvars>>

\* NoEntity without the check: every answer of the store counts as a record.
NoEntityUnchecked(attachmentItem) == FALSE

\* if (!attachmentItem), lines 479 and 618: the store returned no created entity.
NoEntity(attachmentItem) == attachmentItem = 0

\* Lines 476-485 and 615-624: register the attachment record.
AttachRegister ==
    /\ apc = "register"
    /\ \E o \in {"created", "none", "throw"} :
        /\ alog' = SentBy("register", o)
        /\ items' = (IF o = "created"
                     THEN Append(items, [key |-> NewKey, itemType |-> "attachment",
                                         parentItem |-> aloc.itemKey, file |-> FALSE])
                     ELSE items)
        /\ IF o = "throw"
           THEN /\ AttachReturns(AttachCaught("fetch failed"))
                /\ aloc' = aloc
           ELSE LET attachmentItem == IF o = "created" THEN NewKey ELSE 0
                IN  IF NoEntity(attachmentItem)
                    THEN /\ AttachReturns([success |-> FALSE,
                                           error |-> <<"Failed to create attachment item">>])
                         /\ aloc' = aloc
                    ELSE /\ apc' = "upload"
                         /\ aloc' = [aloc EXCEPT !.attachmentKey = attachmentItem]
                         /\ UNCHANGED <<attres, aresult>>
    /\ UNCHANGED ain
    /\ UNCHANGED <<uvars, fvars, svars, pvars, cvars>>

\* uploadResp?.response?.ok ?? uploadResp?.ok, lines 497 and 636: "unknown"
\* is a response that carries neither.
uploadOk(o) == CASE o = "ok" -> "true" [] o = "notok" -> "false" [] OTHER -> "undefined"

\* Lines 491-521 and 630-661: upload the binary and report.
AttachUpload ==
    /\ apc = "upload"
    /\ \E o \in {"ok", "notok", "unknown", "throw"} :
        /\ alog' = SentBy("upload", o)
        /\ \E stored \in (IF o = "ok" THEN {TRUE} ELSE IF o = "unknown" THEN BOOLEAN ELSE {FALSE}) :
              items' = [items EXCEPT ![aloc.attachmentKey].file = stored]
        /\ IF o = "throw"
           THEN AttachReturns(AttachCaught("upload failed"))
           ELSE IF uploadOk(o) = "false"
           THEN AttachReturns([success |-> FALSE,
                               error |-> <<"Attachment item created but file upload failed">>,
                               attachment_key |-> aloc.attachmentKey])
           ELSE AttachReturns([success |-> TRUE, filename |-> "file",
                               attachment_key |-> aloc.attachmentKey])
    /\ UNCHANGED <<ain, aloc>>
    /\ UNCHANGED <<uvars, fvars, svars, pvars, cvars>>

\* createNote lines 1051-1056: the note template with the parent, the
\* content and the tags.
NoteTemplate(parentItemKey, content, tags) ==
    LET template == Templates[<<"n", "o", "t", "e">>]
        t1 == SetKey(template, "parentItem", parentItemKey)
        t2 == SetKey(t1, "note", content)
    IN  IF Len(tags) > 0
        THEN SetKey(t2, "tags", [i \in 1..Len(tags) |-> [tag |-> tags[i]]])
        ELSE t2

\* createNote line 1051 and its catch (1068-1070): request the note template.
CreateNoteTemplate ==
    /\ apc = "note_template"
    /\ \E o \in {"ok", "throw"} :
        /\ alog' = Sent("note_template", o)
        /\ IF o = "ok"
           THEN /\ apc' = "note_post"
                /\ aresult' = aresult
           ELSE /\ apc' = "done"
                /\ aresult' = [success |-> FALSE, error |-> <<"fetch failed">>]
    /\ UNCHANGED <<ain, aloc, items, attres>>
    /\ UNCHANGED <<uvars, fvars, svars, pvars, cvars>>

\* createNote lines 1058-1070: post the note and report.
CreateNotePost ==
    /\ apc = "note_post"
    /\ \E o \in {"created", "none", "throw"} :
        /\ alog' = Sent("post_note", o)
        /\ apc' = "done"
        /\ IF o = "created"
           THEN /\ items' = Append(items,
                                   [key |-> NewKey, itemType |-> "note",
                                    parentItem |-> aloc.itemKey, file |-> FALSE,
                                    version |-> 1,
                                    data |-> NoteTemplate(aloc.itemKey, ain.params.content,
                                                          ain.params.tags)])
                /\ aresult' = [success |-> TRUE, item_key |-> NewKey,
                               message |-> "Note created"]
           ELSE /\ items' = items
                /\ aresult' = [success |-> FALSE,
                               error |-> IF o = "none" THEN <<"Failed to create note">>
                                         ELSE <<"fetch failed">>]
    /\ UNCHANGED <<ain, aloc, attres>>
    /\ UNCHANGED <<uvars, fvars, svars, pvars, cvars>>

ANext ==
    \/ CreateItemTemplate
    \/ CreateItemPost
    \/ CreateNoteTemplate
    \/ CreateNotePost
    \/ AttachUnwrap
    \/ AttachFetch
    \/ AttachReadBody
    \/ AttachRegister
    \/ AttachUpload

(***************************************************************************)
(* updateItem: two calls on the same item, one step per awaited request.   *)
(* A changes object is a function whose DOMAIN is the set of keys given.   *)
(***************************************************************************)
MaxListLen == 2
MaxVersion == 3

Calls == {1, 2}
TagNames == {"x", "y"}

SeqsUpTo(S, n) == UNION {[1..k -> S] : k \in 0..n}

\* [k1 |-> v1] merged with absent keys: every way to give or omit each key.
OptionalKeys(keys, values) ==
    UNION {[given -> values] : given \in SUBSET keys}

Includes(list, x) == \E i \in 1..Len(list) : list[i] = x

RECURSIVE PushMissing(_, _)
\* for (const t of adds) if (!updated.includes(t)) updated.push(t)
PushMissing(updated, adds) ==
    IF adds = <<>> THEN updated
    ELSE PushMissing(IF Includes(updated, Head(adds)) THEN updated
                     ELSE Append(updated, Head(adds)),
                     Tail(adds))

\* FilterOut that removes nothing.
FilterOutNothing(updated, removes) == updated

RECURSIVE FilterOut(_, _)
\* updated.filter(t => !removes.includes(t))
FilterOut(updated, removes) ==
    IF updated = <<>> THEN <<>>
    ELSE (IF Includes(removes, Head(updated)) THEN <<>> ELSE <<Head(updated)>>)
         \o FilterOut(Tail(updated), removes)

\* list.map(t => ({ tag: t })) and list.map(t => t.tag || t)
ToTagObjects(list) == [i \in 1..Len(list) |-> [tag |-> list[i]]]
FromTagObjects(list) == [i \in 1..Len(list) |-> list[i].tag]

\* TagsPatch with add_tags and remove_tags applied to a replacement list too.
TagsPatchMerging(currentData, changes) ==
    LET base == IF "tags" \in DOMAIN changes THEN changes.tags
                ELSE FromTagObjects(currentData.tags)
        added == IF "add_tags" \in DOMAIN changes THEN PushMissing(base, changes.add_tags)
                 ELSE base
        updated == IF "remove_tags" \in DOMAIN changes
                   THEN FilterOut(added, changes.remove_tags)
                   ELSE added
    IN  IF DOMAIN changes \cap {"tags", "add_tags", "remove_tags"} = {}
        THEN [k \in {} |-> <<>>]
        ELSE [tags |-> ToTagObjects(updated)]

\* TagsPatch with the removal applied before the addition.
TagsPatchRemoveFirst(currentData, changes) ==
    IF "tags" \in DOMAIN changes
    THEN [tags |-> ToTagObjects(changes.tags)]
    ELSE IF "add_tags" \in DOMAIN changes \/ "remove_tags" \in DOMAIN changes
    THEN LET existingTags == FromTagObjects(currentData.tags)
             removed == IF "remove_tags" \in DOMAIN changes
                        THEN FilterOut(existingTags, changes.remove_tags)
                        ELSE existingTags
             updated == IF "add_tags" \in DOMAIN changes
                        THEN PushMissing(removed, changes.add_tags)
                        ELSE removed
         IN  [tags |-> ToTagObjects(updated)]
    ELSE [k \in {} |-> <<>>]

\* Lines 1242-1257: the tags key of the patch, <<>> of keys when none is set.
TagsPatch(currentData, changes) ==
    IF "tags" \in DOMAIN changes
    THEN [tags |-> ToTagObjects(changes.tags)]
    ELSE IF "add_tags" \in DOMAIN changes \/ "remove_tags" \in DOMAIN changes
    THEN LET existingTags == FromTagObjects(currentData.tags)
             added == IF "add_tags" \in DOMAIN changes
                      THEN PushMissing(existingTags, changes.add_tags)
                      ELSE existingTags
             updated == IF "remove_tags" \in DOMAIN changes
                        THEN FilterOut(added, changes.remove_tags)
                        ELSE added
         IN  [tags |-> ToTagObjects(updated)]
    ELSE [k \in {} |-> <<>>]

\* CollectionsPatch with add_collections taken as the new membership.
CollectionsPatchAddReplaces(currentData, changes) ==
    IF "collections" \in DOMAIN changes
    THEN [collections |-> changes.collections]
    ELSE IF "add_collections" \in DOMAIN changes \/ "remove_collections" \in DOMAIN changes
    THEN LET added == IF "add_collections" \in DOMAIN changes
                      THEN changes.add_collections
                      ELSE currentData.collections
             updated == IF "remove_collections" \in DOMAIN changes
                        THEN FilterOut(added, changes.remove_collections)
                        ELSE added
         IN  [collections |-> updated]
    ELSE [k \in {} |-> <<>>]

\* Lines 1259-1273: the collections key of the patch.
CollectionsPatch(currentData, changes) ==
    IF "collections" \in DOMAIN changes
    THEN [collections |-> changes.collections]
    ELSE IF "add_collections" \in DOMAIN changes \/ "remove_collections" \in DOMAIN changes
    THEN LET added == IF "add_collections" \in DOMAIN changes
                      THEN PushMissing(currentData.collections, changes.add_collections)
                      ELSE currentData.collections
             updated == IF "remove_collections" \in DOMAIN changes
                        THEN FilterOut(added, changes.remove_collections)
                        ELSE added
         IN  [collections |-> updated]
    ELSE [k \in {} |-> <<>>]

\* Lines 1237-1240: the scalar keys of the patch.
ScalarPatch(changes) ==
    (IF "title" \in DOMAIN changes THEN [title |-> changes.title] ELSE [k \in {} |-> <<>>])
    @@ (IF "abstract" \in DOMAIN changes THEN [abstractNote |-> changes.abstract]
        ELSE [k \in {} |-> <<>>])
    @@ (IF "date" \in DOMAIN changes THEN [date |-> changes.date] ELSE [k \in {} |-> <<>>])
    @@ (IF "extra" \in DOMAIN changes THEN [extra |-> changes.extra] ELSE [k \in {} |-> <<>>])

\* BuildPatch starting from the item that was read instead of an empty object.
BuildPatchWholeItem(currentData, changes) ==
    ScalarPatch(changes) @@ TagsPatch(currentData, changes)
    @@ CollectionsPatch(currentData, changes) @@ currentData

\* Lines 1235-1273: the patch object.
BuildPatch(currentData, changes) ==
    ScalarPatch(changes) @@ TagsPatch(currentData, changes)
    @@ CollectionsPatch(currentData, changes)

\* The store applying a patch: the keys of the patch replace the item's.
ApplyPatch(data, patch) == patch @@ data

Lists == SeqsUpTo(TagNames, MaxListLen)

\* The changes objects of the reconciliation runs: every way to give or omit
\* tags, add_tags and remove_tags.
TagChanges == OptionalKeys({"tags", "add_tags", "remove_tags"}, Lists)

\* The changes objects of the concurrent runs.
ConcChanges ==
    {[add_tags |-> <<"y">>], [remove_tags |-> <<"x">>], [tags |-> <<"y">>],
     [title |-> "T2"], [add_tags |-> <<"y">>, remove_tags |-> <<"x">>]}

ItemData(tags) ==
    [title |-> "T", tags |-> ToTagObjects(tags), collections |-> <<"C1">>]

UIdle ==
    /\ item = [version |-> 1, data |-> ItemData(<<>>)]
    /\ upc = [c \in Calls |-> "off"]
    /\ uchg = [c \in Calls |-> <<>>]
    /\ uread = [c \in Calls |-> NoResult]
    /\ ulog = [c \in Calls |-> <<>>]
    /\ uresult = [c \in Calls |-> NoResult]
    /\ usince = [c \in Calls |-> FALSE]

CollNames == {"C1", "C2"}

CollLists == SeqsUpTo(CollNames, MaxListLen)

\* The changes objects that give or omit collections, add_collections and
\* remove_collections.
CollChanges ==
    OptionalKeys({"collections", "add_collections", "remove_collections"}, CollLists)

\* raw.data.collections of a stored item: each collection key at most once.
StoredCollections == {<<>>, <<"C1">>, <<"C2">>, <<"C1", "C2">>, <<"C2", "C1">>}

\* An item with every scalar field updateItem can change.
FullItemData ==
    [title |-> "T", abstractNote |-> "A", date |-> "2020", extra |-> "E",
     tags |-> ToTagObjects(<<"x">>), collections |-> <<"C1">>]

\* The changes objects that give or omit each scalar field; "" is a given,
\* empty value.
ScalarChanges == OptionalKeys({"title", "abstract", "date", "extra"}, {"new", ""})

\* Scalar fields together with tag and collection changes.
MixedChanges ==
    {[title |-> "new", add_tags |-> <<"y">>],
     [extra |-> "new", remove_collections |-> <<"C1">>],
     [abstract |-> "new", tags |-> <<>>, collections |-> <<"C2">>]}

\* The item and the changes of the reconciliation runs: every tag change on
\* every current tag list, every collection change on every membership.
ReconcileInputs ==
    [data : {ItemData(tags) : tags \in Lists}, changes : TagChanges]
    \cup [data : {[ItemData(<<"x">>) EXCEPT !.collections = colls] :
                      colls \in StoredCollections},
          changes : CollChanges]
    \cup [data : {FullItemData, ItemData(<<"x">>)}, changes : ScalarChanges \cup MixedChanges]

\* One call with every combination of changes and current item.
UInitOne ==
    /\ \E in \in ReconcileInputs :
        /\ item = [version |-> 1, data |-> in.data]
        /\ uchg = [c \in Calls |-> IF c = 1 THEN in.changes ELSE <<>>]
    /\ upc = [c \in Calls |-> IF c = 1 THEN "get" ELSE "off"]
    /\ uread = [c \in Calls |-> NoResult]
    /\ ulog = [c \in Calls |-> <<>>]
    /\ uresult = [c \in Calls |-> NoResult]
    /\ usince = [c \in Calls |-> FALSE]

\* Two calls in flight on the same item.
UInitTwo ==
    /\ item = [version |-> 1, data |-> ItemData(<<"x">>)]
    /\ upc = [c \in Calls |-> "get"]
    /\ uchg \in [Calls -> ConcChanges]
    /\ uread = [c \in Calls |-> NoResult]
    /\ ulog = [c \in Calls |-> <<>>]
    /\ uresult = [c \in Calls |-> NoResult]
    /\ usince = [c \in Calls |-> FALSE]

\* The catch block of updateItem, lines 1282-1284.
UpdateFailed(message) == [success |-> FALSE, error |-> message]

\* err.message at line 1283: the text of whatever error the try block caught.
\* The text is made by the API client or the runtime, outside this code, which
\* neither reads nor maps it; two texts stand for it, whatever the failure.
ErrMessages == {"m1", "m2"}

\* Lines 1229-1232: read the item and keep its version and data.
UpdateGet(c) ==
    /\ upc[c] = "get"
    /\ \E o \in {"ok", "notfound", "throw"}, message \in ErrMessages :
        /\ ulog' = [ulog EXCEPT ![c] = Append(@, [req |-> "get", outcome |-> o,
                                                  version |-> item.version])]
        /\ IF o = "ok"
           THEN /\ uread' = [uread EXCEPT ![c] = [version |-> item.version,
                                                  data |-> item.data]]
                /\ upc' = [upc EXCEPT ![c] = "patch"]
                /\ uresult' = uresult
           ELSE /\ upc' = [upc EXCEPT ![c] = "done"]
                /\ uresult' = [uresult EXCEPT ![c] = UpdateFailed(message)]
                /\ uread' = uread
    /\ usince' = [usince EXCEPT ![c] = FALSE]
    /\ UNCHANGED <<item, uchg>>
    /\ UNCHANGED <<avars, fvars, svars, pvars, cvars>>

\* PatchVersion with the version after the one read.
PatchVersionNext(c) == uread[c].version + 1

\* PatchVersion with the store's version at the time of the patch, as a
\* re-read right before the patch would give.
PatchVersionCurrent(c) == item.version

\* .version(version), line 1275: the version the patch is conditioned on.
PatchVersion(c) == uread[c].version

\* The store's version check on a patch.
StoreAccepts(version) == version = item.version

\* Line 1275-1284: send the patch and report.
UpdatePatch(c) ==
    /\ upc[c] = "patch"
    /\ LET patch == BuildPatch(uread[c].data, uchg[c])
           version == PatchVersion(c)
       IN  \E o \in (IF StoreAccepts(version) THEN {"ok", "reject", "throw"}
                     ELSE {"conflict", "throw"}), message \in ErrMessages :
            /\ ulog' = [ulog EXCEPT ![c] = Append(@, [req |-> "patch", outcome |-> o,
                                                      version |-> version, patch |-> patch])]
            /\ IF o = "ok"
               THEN /\ item' = [version |-> item.version + 1,
                                data |-> ApplyPatch(item.data, patch)]
                    /\ usince' = [d \in Calls |->
                                    IF d # c /\ upc[d] = "patch" THEN TRUE ELSE usince[d]]
                    /\ uresult' = [uresult EXCEPT ![c] =
                                      [success |-> TRUE, item_key |-> "ITEM",
                                       message |-> "updated"]]
               ELSE /\ uresult' = [uresult EXCEPT ![c] = UpdateFailed(message)]
                    /\ UNCHANGED <<item, usince>>
    /\ upc' = [upc EXCEPT ![c] = "done"]
    /\ UNCHANGED <<uchg, uread>>
    /\ UNCHANGED <<avars, fvars, svars, pvars, cvars>>

\* Another client of the library changes the item.
OtherClientWrite ==
    /\ item.version < MaxVersion
    /\ \E c \in Calls : upc[c] \in {"get", "patch"}
    /\ item' = [version |-> item.version + 1,
                data |-> [item.data EXCEPT !.tags = <<[tag |-> "other"]>>]]
    /\ usince' = [d \in Calls |-> IF upc[d] = "patch" THEN TRUE ELSE usince[d]]
    /\ UNCHANGED <<upc, uchg, uread, ulog, uresult>>
    /\ UNCHANGED <<avars, fvars, svars, pvars, cvars>>

UNext ==
    \/ \E c \in Calls : UpdateGet(c)
    \/ \E c \in Calls : UpdatePatch(c)
    \/ OtherClientWrite

(***************************************************************************)
(* getItemFulltext: one call, one step per awaited request.                *)
(***************************************************************************)
MaxChildren == 3

\* What the store holds for a child: a note, an attachment without content
\* type, a PDF attachment, an HTML attachment.
ChildKinds ==
    {[itemType |-> "note", contentType |-> ""],
     [itemType |-> "attachment", contentType |-> ""],
     [itemType |-> "attachment", contentType |-> "application/pdf"],
     [itemType |-> "attachment", contentType |-> "text/html"]}

\* contentType.includes("pdf"), over the content types used here.
IncludesPdf(contentType) == contentType \in {"application/pdf"}

\* childrenResp.raw: child number i has key i; the target item has key 0.
ChildrenOf(kinds) ==
    [i \in 1..Len(kinds) |->
        [key |-> i, itemType |-> kinds[i].itemType, contentType |-> kinds[i].contentType]]

\* itemResp.raw.data of the target: attachments with and without a content
\* type, a filename and a title ("" is a missing value), and a parent item.
TargetItems ==
    [itemType : {"attachment"}, contentType : {"application/pdf", "text/html", ""},
     filename : {"a.pdf", ""}, title : {"Paper", ""}]
    \cup {[itemType |-> "journalArticle", contentType |-> "", filename |-> "", title |-> "Paper"]}

FInit ==
    /\ fpc = "get"
    /\ \E t \in TargetItems :
       \E kinds \in SeqsUpTo(ChildKinds, MaxChildren) :
          /\ t.itemType = "attachment" => kinds = <<>>
          /\ fin = [itemType |-> t.itemType, contentType |-> t.contentType,
                    filename |-> t.filename, title |-> t.title,
                    children |-> ChildrenOf(kinds)]
    /\ fatt = <<>>
    /\ flog = <<>>
    /\ fresult = NoResult

FIdle ==
    /\ fpc = "off"
    /\ fin = [itemType |-> "", contentType |-> "", filename |-> "", title |-> "",
              children |-> <<>>]
    /\ fatt = <<>>
    /\ flog = <<>>
    /\ fresult = NoResult

\* The ways a fulltext request can end: content, a 200 whose content is empty,
\* 404 (not indexed), another non-2xx status, a body that is not JSON, a
\* transport error or timeout.
\* The ways await fetch(url) of fetchFulltext can end (lines 808-825): an OK
\* status, which leaves the call waiting for the body, or an outcome that
\* ends the request.
StatusOutcomes == {"200", "404", "non2xx", "throw"}

\* The ways await resp.json() can end (line 828): content, an empty content,
\* or a body that cannot be read.
BodyOutcomes == {"content", "empty", "badjson"}

Null == [null |-> TRUE]

\* fetchFulltext without its catch block: a transport error propagates.
fetchFulltextRethrows(o) ==
    CASE o = "content" -> [content |-> "text"]
      [] o = "empty" -> [content |-> ""]
      [] o = "throw" -> [threw |-> TRUE]
      [] OTHER -> Null

\* fetchFulltext, lines 797-841: the data, or null for every failure.
fetchFulltext(o) ==
    CASE o = "content" -> [content |-> "text"]
      [] o = "empty" -> [content |-> ""]
      [] OTHER -> Null

\* ftData?.content
HasContent(ftData) == "content" \in DOMAIN ftData /\ ftData.content # ""

\* The catch block of getItemFulltext, lines 946-949.
FulltextFailed(message) == [error |-> <<"Failed to get fulltext: ", message>>]

\* Lines 887-889: the children that are attachments with a content type.
Attachments(children) ==
    LET IsAttachment(c) == c.itemType = "attachment" /\ c.contentType # ""
    IN  SelectSeq(children, IsAttachment)

\* OrderedAttachments without the partition: the store's order.
UnorderedAttachments(attachments) == attachments

\* Lines 902-908: PDFs first, then the others.
OrderedAttachments(attachments) ==
    LET IsPdf(a) == IncludesPdf(a.contentType)
        IsOther(a) == ~IncludesPdf(a.contentType)
    IN  SelectSeq(attachments, IsPdf) \o SelectSeq(attachments, IsOther)

\* Lines 893-899.
NoAttachmentsResult ==
    [item_key |-> 0, content |-> Null, message |-> "This item has no attachments."]

\* ExhaustedResult reported as an error.
ExhaustedResultAsError(attachments) ==
    [item_key |-> 0, content |-> Null, error |-> "No full-text content available."]

\* Lines 931-945.
ExhaustedResult(attachments) ==
    [item_key |-> 0, content |-> Null,
     attachments_checked |-> [i \in 1..Len(attachments) |-> attachments[i].key],
     message |-> "No full-text content available."]

\* Lines 916-928.
FoundResult(att, ftData) ==
    [item_key |-> 0, attachment_key |-> att.key, content |-> ftData.content,
     source |-> "child_attachment_fulltext"]

\* The fulltext requests among the requests sent.
Probes ==
    LET IsProbe(e) == e.req = "fulltext"
    IN  SelectSeq(flog, IsProbe)

FSent(req, key, outcome) == Append(flog, [req |-> req, key |-> key, outcome |-> outcome])

\* Lines 845-850: read the target item.
FulltextGetItem ==
    /\ fpc = "get"
    /\ \E o \in {"ok", "throw"} :
        /\ flog' = FSent("item", 0, o)
        /\ IF o = "ok"
           THEN /\ fpc' = (IF fin.itemType = "attachment" THEN "direct" ELSE "children")
                /\ fresult' = fresult
           ELSE /\ fpc' = "done"
                /\ fresult' = FulltextFailed("fetch failed")
    /\ UNCHANGED <<fin, fatt>>
    /\ UNCHANGED <<avars, uvars, svars, pvars, cvars>>

\* itemData?.filename || itemData?.title || "unknown", line 855.
FilenameOf(itemData) ==
    IF itemData.filename # "" THEN itemData.filename
    ELSE IF itemData.title # "" THEN itemData.title
    ELSE "unknown"

\* NoFulltextResult as a failure result.
NoFulltextAsError(itemData) == [error |-> <<"No fulltext available">>]

\* Lines 870-880: the attachment has no fulltext.
NoFulltextResult(itemData) ==
    [item_key |-> 0, content |-> Null, contentType |-> itemData.contentType,
     filename |-> FilenameOf(itemData),
     message |-> IF IncludesPdf(itemData.contentType)
                 THEN "PDF has not been indexed by Zotero."
                 ELSE "Attachment type does not support full-text extraction."]

\* What getItemFulltext returns for an attachment target once fetchFulltext
\* returned ftData, lines 858-880.
DirectResult(ftData) ==
    IF "threw" \in DOMAIN ftData THEN FulltextFailed("fetch failed")
    ELSE IF HasContent(ftData)
    THEN [item_key |-> 0, content |-> ftData.content, source |-> "fulltext_api"]
    ELSE NoFulltextResult(fin)

\* Lines 853-857 with fetchFulltext up to its status tests (808-825): the
\* target is itself an attachment.
FulltextDirect ==
    /\ fpc = "direct"
    /\ \E o \in StatusOutcomes :
        /\ flog' = FSent("fulltext", 0, o)
        /\ IF o = "200"
           THEN /\ fpc' = "direct_body"
                /\ fresult' = fresult
           ELSE /\ fpc' = "done"
                /\ fresult' = DirectResult(fetchFulltext(o))
    /\ UNCHANGED <<fin, fatt>>
    /\ UNCHANGED <<avars, uvars, svars, pvars, cvars>>

\* await resp.json() of fetchFulltext (line 828), then lines 858-880.
FulltextDirectBody ==
    /\ fpc = "direct_body"
    /\ \E o \in BodyOutcomes :
        /\ flog' = [flog EXCEPT ![Len(flog)].outcome = o]
        /\ fpc' = "done"
        /\ fresult' = DirectResult(fetchFulltext(o))
    /\ UNCHANGED <<fin, fatt>>
    /\ UNCHANGED <<avars, uvars, svars, pvars, cvars>>

\* Lines 883-908: enumerate the children and order the attachments.
FulltextChildren ==
    /\ fpc = "children"
    /\ \E o \in {"ok", "throw"} :
        /\ flog' = FSent("children", 0, o)
        /\ IF o = "throw"
           THEN /\ fpc' = "done"
                /\ fresult' = FulltextFailed("fetch failed")
                /\ fatt' = fatt
           ELSE LET attachments == Attachments(fin.children)
                IN  IF Len(attachments) = 0
                    THEN /\ fpc' = "done"
                         /\ fresult' = NoAttachmentsResult
                         /\ fatt' = fatt
                    ELSE /\ fpc' = "probe"
                         /\ fatt' = OrderedAttachments(attachments)
                         /\ fresult' = fresult
    /\ UNCHANGED fin
    /\ UNCHANGED <<avars, uvars, svars, pvars, cvars>>

\* Lines 915-945: what the loop does once fetchFulltext returned ftData for
\* attachment number n of the ordered list.
AfterProbe(n, ftData) ==
    IF "threw" \in DOMAIN ftData
    THEN /\ fpc' = "done"
         /\ fresult' = FulltextFailed("fetch failed")
    ELSE IF HasContent(ftData)
    THEN /\ fpc' = "done"
         /\ fresult' = FoundResult(fatt[n], ftData)
    ELSE IF n = Len(fatt)
    THEN /\ fpc' = "done"
         /\ fresult' = ExhaustedResult(Attachments(fin.children))
    ELSE /\ fpc' = "probe"
         /\ fresult' = fresult

\* Lines 912-914 with fetchFulltext up to its status tests (808-825): the
\* request for the next attachment.
FulltextProbe ==
    /\ fpc = "probe"
    /\ LET n == Len(Probes) + 1
       IN  \E o \in StatusOutcomes :
            /\ flog' = FSent("fulltext", fatt[n].key, o)
            /\ IF o = "200"
               THEN /\ fpc' = "probe_body"
                    /\ fresult' = fresult
               ELSE AfterProbe(n, fetchFulltext(o))
    /\ UNCHANGED <<fin, fatt>>
    /\ UNCHANGED <<avars, uvars, svars, pvars, cvars>>

\* await resp.json() of fetchFulltext (line 828), then lines 915-945.
FulltextProbeBody ==
    /\ fpc = "probe_body"
    /\ \E o \in BodyOutcomes :
        /\ flog' = [flog EXCEPT ![Len(flog)].outcome = o]
        /\ AfterProbe(Len(Probes), fetchFulltext(o))
    /\ UNCHANGED <<fin, fatt>>
    /\ UNCHANGED <<avars, uvars, svars, pvars, cvars>>

FNext ==
    \/ FulltextGetItem
    \/ FulltextDirect
    \/ FulltextDirectBody
    \/ FulltextChildren
    \/ FulltextProbe
    \/ FulltextProbeBody

(***************************************************************************)
(* getLibraryStats: one call whose three queries are in flight together;   *)
(* one step per answer, one step for the continuation of Promise.all.      *)
(***************************************************************************)
MaxTags == 2

TopTagsLimit == 15

Queries == {"items", "collections", "tags"}

\* What the store answers to the most-recent-item probe: the Total-Results
\* header as written (<<>> when the header is missing) and the raw items.
ItemsAnswers ==
    {[totalResults |-> <<>>, raw |-> <<>>],
     [totalResults |-> <<"0">>, raw |-> <<>>],
     [totalResults |-> <<"7">>, raw |-> <<[title |-> "T", dateModified |-> "2024-05-01"]>>],
     [totalResults |-> <<"1", "2">>, raw |-> <<[title |-> "", dateModified |-> ""]>>]}

\* response.raw of the collection list; a top-level collection has no
\* parentCollection that is truthy.
CollectionAnswers ==
    {<<>>,
     <<[key |-> "C1", data |-> [name |-> "Papers"]]>>,
     <<[key |-> "C1", data |-> [name |-> "Papers"]],
       [key |-> "C2", data |-> [name |-> "Drafts", parentCollection |-> "C1"]]>>}

\* The entries of response.raw of the tag list; meta can be missing.
TagEntries ==
    {[tag |-> "x", meta |-> [numItems |-> 1]],
     [tag |-> "y", meta |-> [numItems |-> 3]],
     [tag |-> "z"]}

Libraries ==
    [items : ItemsAnswers, collections : CollectionAnswers,
     tags : SeqsUpTo(TagEntries, MaxTags)]

Pending == [state |-> "pending"]
Fulfilled(value, request) == [state |-> "fulfilled", value |-> value, request |-> request]
Rejected(message, request) == [state |-> "rejected", message |-> message, request |-> request]

SInit ==
    /\ spc = "await"
    /\ sin \in Libraries
    /\ sq = [q \in Queries |-> Pending]
    /\ sresult = NoResult

SIdle ==
    /\ spc = "off"
    /\ sin = [items |-> [totalResults |-> <<>>, raw |-> <<>>], collections |-> <<>>,
              tags |-> <<>>]
    /\ sq = [q \in Queries |-> Pending]
    /\ sresult = NoResult

\* A query can be answered while the call waits and no promise was rejected:
\* a rejection resumes the call before any other answer is handled.
CanSettle(q) ==
    /\ spc = "await"
    /\ sq[q] = Pending
    /\ \A r \in Queries : sq[r].state # "rejected"

\* Line 1163: zot.items().top().get(...), not wrapped by any handler.
StatsItemsQuery ==
    /\ CanSettle("items")
    /\ \E o \in {"ok", "throw"} :
        sq' = [sq EXCEPT !["items"] =
                  IF o = "ok" THEN Fulfilled(sin.items, o)
                  ELSE Rejected("fetch failed", o)]
    /\ UNCHANGED <<spc, sin, sresult>>
    /\ UNCHANGED <<avars, uvars, fvars, pvars, cvars>>

\* listCollections, lines 180-189: no try/catch, a failed request rejects.
listCollections(o, raw) ==
    IF o = "ok"
    THEN Fulfilled([i \in 1..Len(raw) |->
                       [key |-> raw[i].key, name |-> raw[i].data.name,
                        parent |-> IF "parentCollection" \in DOMAIN raw[i].data
                                   THEN [string |-> raw[i].data.parentCollection]
                                   ELSE Null]], o)
    ELSE Rejected("fetch failed", o)

StatsListCollections ==
    /\ CanSettle("collections")
    /\ \E o \in {"ok", "throw"} :
        sq' = [sq EXCEPT !["collections"] = listCollections(o, sin.collections)]
    /\ UNCHANGED <<spc, sin, sresult>>
    /\ UNCHANGED <<avars, uvars, fvars, pvars, cvars>>

\* t.meta?.numItems || 0
NumItems(t) == IF "meta" \in DOMAIN t THEN t.meta.numItems ELSE 0

\* listTags, lines 994-1011: its catch block turns a failed request into the
\* value {error: message}; the promise is fulfilled either way.
listTags(o, raw) ==
    IF o = "ok"
    THEN Fulfilled([tags |-> [i \in 1..Len(raw) |->
                                 [tag |-> raw[i].tag, numItems |-> NumItems(raw[i])]],
                    offset |-> 0, limit |-> 25], o)
    ELSE Fulfilled([error |-> "fetch failed"], o)

StatsListTags ==
    /\ CanSettle("tags")
    /\ \E o \in {"ok", "throw"} :
        sq' = [sq EXCEPT !["tags"] = listTags(o, sin.tags)]
    /\ UNCHANGED <<spc, sin, sresult>>
    /\ UNCHANGED <<avars, uvars, fvars, pvars, cvars>>

DigitValue(d) ==
    CASE d = "0" -> 0 [] d = "1" -> 1 [] d = "2" -> 2 [] d = "3" -> 3 [] d = "4" -> 4
      [] d = "5" -> 5 [] d = "6" -> 6 [] d = "7" -> 7 [] d = "8" -> 8 [] d = "9" -> 9

RECURSIVE ParseDigits(_, _)
ParseDigits(acc, digits) ==
    IF digits = <<>> THEN acc
    ELSE ParseDigits(acc * 10 + DigitValue(Head(digits)), Tail(digits))

\* parseInt(header || "0", 10), over headers made of digits.
ParseTotal(header) == IF header = <<>> THEN 0 ELSE ParseDigits(0, header)

RECURSIVE InsertByCount(_, _)
\* t placed after every entry whose count is at least its own.
InsertByCount(sorted, t) ==
    IF sorted = <<>> THEN <<t>>
    ELSE IF Head(sorted).numItems >= t.numItems
    THEN <<Head(sorted)>> \o InsertByCount(Tail(sorted), t)
    ELSE <<t>> \o sorted

RECURSIVE SortByCount(_)
\* tags.sort((a, b) => b.numItems - a.numItems): descending, stable.
SortByCount(tags) ==
    IF tags = <<>> THEN <<>>
    ELSE InsertByCount(SortByCount(SubSeq(tags, 1, Len(tags) - 1)), tags[Len(tags)])

\* .slice(0, n)
Slice(list, n) == SubSeq(list, 1, IF Len(list) < n THEN Len(list) ELSE n)

\* Lines 1168-1196: the summary built from the three values.
Summary(itemsResp, collectionsResult, tagsResult) ==
    LET topTags == Slice(SortByCount(IF "tags" \in DOMAIN tagsResult THEN tagsResult.tags
                                     ELSE <<>>), TopTagsLimit)
    IN  [total_items |-> ParseTotal(itemsResp.totalResults),
         total_collections |-> Len(collectionsResult),
         total_tags |-> Len(topTags),
         collections |-> [i \in 1..Len(collectionsResult) |->
                             [key |-> collectionsResult[i].key,
                              name |-> collectionsResult[i].name]],
         top_tags |-> topTags,
         last_modified_item |->
            IF itemsResp.raw = <<>> THEN Null
            ELSE [title |-> IF itemsResp.raw[1].title = "" THEN "(untitled)"
                            ELSE itemsResp.raw[1].title,
                  date |-> IF itemsResp.raw[1].dateModified = "" THEN Null
                           ELSE [string |-> itemsResp.raw[1].dateModified]]]

\* Lines 1160-1200: Promise.all resumes the call with the three values, or
\* throws the first rejection into the catch block.
StatsAwait ==
    /\ spc = "await"
    /\ \/ \E q \in Queries :
            /\ sq[q].state = "rejected"
            /\ sresult' = [error |-> sq[q].message]
       \/ /\ \A q \in Queries : sq[q].state = "fulfilled"
          /\ sresult' = Summary(sq["items"].value, sq["collections"].value,
                                sq["tags"].value)
    /\ spc' = "done"
    /\ UNCHANGED <<sin, sq>>
    /\ UNCHANGED <<avars, uvars, fvars, pvars, cvars>>

SNext ==
    \/ StatsItemsQuery
    \/ StatsListCollections
    \/ StatsListTags
    \/ StatsAwait

(***************************************************************************)
(* createCollection: one call; the checks up to the request are one step,  *)
(* the answer of the store the next.                                       *)
(***************************************************************************)
MaxNameLen == 3

\* Names of up to MaxNameLen characters, with and without a parent.
CollectionInputs ==
    [name : UNION {[1..k -> {" ", "\t", "a"}] : k \in 0..MaxNameLen},
     parentCollectionId : {"", "C1"}]

CInit ==
    /\ cpc = "start"
    /\ cin \in CollectionInputs
    /\ clog = <<>>
    /\ cresult = NoResult

CIdle ==
    /\ cpc = "off"
    /\ cin = [name |-> <<>>, parentCollectionId |-> ""]
    /\ clog = <<>>
    /\ cresult = NoResult

\* !name || !name.trim(), line 198.
NameMissing(name) == name = <<>> \/ Trim(name) = <<>>

\* Lines 203-206: the data of the collection to create.
CollectionData(name, parentCollectionId) ==
    IF parentCollectionId # ""
    THEN [name |-> Trim(name), parentCollection |-> parentCollectionId]
    ELSE [name |-> Trim(name)]

\* Lines 198-213: reject a missing name, else send the request.
CreateCollectionStart ==
    /\ cpc = "start"
    /\ IF NameMissing(cin.name)
       THEN /\ cpc' = "done"
            /\ cresult' = [success |-> FALSE, error |-> <<"Collection name is required">>]
            /\ clog' = clog
       ELSE /\ cpc' = "post"
            /\ clog' = Append(clog, [req |-> "post_collection",
                                     data |-> CollectionData(cin.name, cin.parentCollectionId)])
            /\ cresult' = cresult
    /\ UNCHANGED cin
    /\ UNCHANGED <<avars, uvars, fvars, svars, pvars>>

\* Lines 213-239: the answer of the store and the result.
CreateCollectionPost ==
    /\ cpc = "post"
    /\ \E o \in {"created", "none", "throw"} :
        cresult' =
            CASE o = "created" ->
                    [success |-> TRUE, collection_key |-> "K1",
                     name |-> clog[1].data.name,
                     parent |-> IF cin.parentCollectionId # ""
                                THEN [string |-> cin.parentCollectionId] ELSE Null,
                     message |-> <<"Created collection: ", clog[1].data.name>>]
              [] o = "none" ->
                    [success |-> FALSE,
                     error |-> <<"Failed to create collection. API response: ", "raw">>]
              [] o = "throw" ->
                    [success |-> FALSE,
                     error |-> <<"Failed to create collection: ", "fetch failed">>]
    /\ cpc' = "done"
    /\ UNCHANGED <<cin, clog>>
    /\ UNCHANGED <<avars, uvars, fvars, svars, pvars>>

CNext == CreateCollectionStart \/ CreateCollectionPost

(***************************************************************************)
(* The Worker fetch handler (packages/deploy/src/index.ts), applied to one *)
(* request.  A path is the list of its segments as for unwrapUrl; the      *)
(* Authorization header is the list of its parts, <<>> when it is missing; *)
(* BEARER_TOKEN is "" when it is not configured.                           *)
(***************************************************************************)
\* "/", "/mcp", "/mcp/", "/mcp/sse", "/mcp/t", "/mcp/t/", "/mcp/t/secret",
\* "/mcp/t/wrong", "/mcp/t/secret/sse", "/mcpx", "/sse", "/other/mcp".
WorkerPaths ==
    {<<"">>, <<"mcp">>, <<"mcp", "">>, <<"mcp", "sse">>, <<"mcp", "t">>,
     <<"mcp", "t", "">>, <<"mcp", "t", "secret">>, <<"mcp", "t", "wrong">>,
     <<"mcp", "t", "secret", "sse">>, <<"mcpx">>, <<"sse">>, <<"other", "mcp">>}

AuthHeaders ==
    {<<>>, <<"Bearer ", "secret">>, <<"Bearer ", "wrong">>, <<"Bearer ", "">>,
     <<"bearer ", "secret">>, <<"secret">>}

WorkerInputs ==
    [pathname : WorkerPaths, authorization : AuthHeaders, BEARER_TOKEN : {"", "secret"}]

PInitWorker ==
    /\ ppc = "fetch"
    /\ pin \in WorkerInputs
    /\ pout = <<>>

\* url.pathname.match(/^\/mcp\/t\/([^/]+)(\/.*)?$/)
TokenMatch(pathname) ==
    Len(pathname) >= 3 /\ pathname[1] = "mcp" /\ pathname[2] = "t" /\ pathname[3] # ""

\* url.pathname.startsWith("/mcp"), over the first segments used here.
StartsWithMcp(pathname) == pathname[1] \in {"mcp", "mcpx"}

Unauthorized(wwwAuthenticate) ==
    [kind |-> "response", status |-> 401, wwwAuthenticate |-> wwwAuthenticate]

\* ZoteroMCP.serve("/mcp").fetch(request, env, ctx) with the request's path.
Forwarded(pathname) == [kind |-> "forward", pathname |-> pathname]

\* fetch(request, env, ctx), lines 58-133.
WorkerFetchResult(request) ==
    IF request.pathname = <<"">>
    THEN [kind |-> "response", status |-> 200, wwwAuthenticate |-> FALSE]
    ELSE IF TokenMatch(request.pathname)
    THEN IF request.BEARER_TOKEN = "" \/ request.pathname[3] # request.BEARER_TOKEN
         THEN Unauthorized(FALSE)
         ELSE Forwarded(<<"mcp">> \o SubSeq(request.pathname, 4, Len(request.pathname)))
    ELSE IF StartsWithMcp(request.pathname)
            /\ (\/ request.BEARER_TOKEN = ""
                \/ request.authorization = <<>>
                \/ request.authorization # <<"Bearer ", request.BEARER_TOKEN>>)
    THEN Unauthorized(TRUE)
    ELSE Forwarded(request.pathname)

WorkerFetch ==
    /\ ppc = "fetch"
    /\ pout' = <<WorkerFetchResult(pin)>>
    /\ ppc' = "done"
    /\ UNCHANGED pin
    /\ UNCHANGED <<avars, uvars, fvars, svars, cvars>>

(***************************************************************************)
(* Specifications: one per operation group; the other groups stay idle.    *)
(***************************************************************************)
InitAttach == AInit /\ UIdle /\ FIdle /\ SIdle /\ PIdle /\ CIdle
SpecAttach == InitAttach /\ [][ANext]_vars

InitUpdate == AIdle /\ UInitTwo /\ FIdle /\ SIdle /\ PIdle /\ CIdle
SpecUpdate == InitUpdate /\ [][UNext]_vars

InitReconcile == AIdle /\ UInitOne /\ FIdle /\ SIdle /\ PIdle /\ CIdle
SpecReconcile == InitReconcile /\ [][UNext]_vars

InitFulltext == AIdle /\ UIdle /\ FInit /\ SIdle /\ PIdle /\ CIdle
SpecFulltext == InitFulltext /\ [][FNext]_vars

InitStats == AIdle /\ UIdle /\ FIdle /\ SInit /\ PIdle /\ CIdle
SpecStats == InitStats /\ [][SNext]_vars

InitResolve == AIdle /\ UIdle /\ FIdle /\ SIdle /\ PInitResolve /\ CIdle
SpecResolve == InitResolve /\ [][NextResolve]_vars

InitUnwrap == AIdle /\ UIdle /\ FIdle /\ SIdle /\ PInitUnwrap /\ CIdle
SpecUnwrap == InitUnwrap /\ [][NextUnwrap]_vars

InitCollection == AIdle /\ UIdle /\ FIdle /\ SIdle /\ PIdle /\ CInit
SpecCollection == InitCollection /\ [][CNext]_vars

InitWorker == AIdle /\ UIdle /\ FIdle /\ SIdle /\ PInitWorker /\ CIdle
SpecWorker == InitWorker /\ [][WorkerFetch]_vars

\* createItem followed by updateItem on the key it returned, one client.
InitEndToEnd ==
    /\ AInit /\ UIdle /\ FIdle /\ SIdle /\ PIdle /\ CIdle
    /\ ain.op = "createItem"
    /\ \E tags \in Lists : ain.params = [ArticleParams EXCEPT !.tags = tags]

\* updateItem(itemKey, {add_tags: ["y"], remove_tags: ["x"]}) with the key
\* createItem returned: the store's copy of that item is the one the call
\* works on.
UpdateCreatedItem ==
    /\ apc = "done"
    /\ "item_key" \in DOMAIN aresult
    /\ upc[1] = "off"
    /\ item' = [version |-> items[aresult.item_key].version,
                data |-> items[aresult.item_key].data]
    /\ upc' = [upc EXCEPT ![1] = "get"]
    /\ uchg' = [uchg EXCEPT ![1] = [add_tags |-> <<"y">>, remove_tags |-> <<"x">>]]
    /\ UNCHANGED <<uread, ulog, uresult, usince>>
    /\ UNCHANGED <<avars, fvars, svars, pvars, cvars>>

NextEndToEnd ==
    \/ CreateItemTemplate
    \/ CreateItemPost
    \/ AttachUnwrap
    \/ AttachFetch
    \/ AttachReadBody
    \/ AttachRegister
    \/ AttachUpload
    \/ UpdateCreatedItem
    \/ \E c \in Calls : UpdateGet(c)
    \/ \E c \in Calls : UpdatePatch(c)
SpecEndToEnd == InitEndToEnd /\ [][NextEndToEnd]_vars

Init ==
    \/ InitAttach \/ InitUpdate \/ InitFulltext \/ InitStats \/ InitResolve \/ InitUnwrap
    \/ InitEndToEnd \/ InitCollection \/ InitWorker
Next ==
    \/ ANext \/ UNext \/ FNext \/ SNext \/ NextResolve \/ NextUnwrap
    \/ NextEndToEnd \/ CNext \/ WorkerFetch
Spec == Init /\ [][Next]_vars

(***************************************************************************)
(* Properties of createItem, attachPdfFromUrl and attachSnapshot.          *)
(***************************************************************************)
RequestsOf(req) == {i \in 1..Len(alog) : alog[i].req = req}

\* The attachment record was registered and the upload after it failed.
UploadFailedAfterRegistration ==
    /\ apc = "done"
    /\ \E i \in RequestsOf("register") : alog[i].outcome = "created"
    /\ \E i \in RequestsOf("upload") : alog[i].outcome \in {"notok", "throw"}

\* C1: when the attachment record was registered and the upload then fails
\* (response not OK, or the upload call throws), the result returned by
\* attachPdfFromUrl / attachSnapshot contains the registered attachment's key.
C1_UploadFailureReturnsKey ==
    UploadFailedAfterRegistration =>
        /\ Returned(attres)
        /\ "attachment_key" \in DOMAIN attres
        /\ attres.attachment_key = items[Len(items)].key
        /\ items[Len(items)].itemType = "attachment"

\* C2: an upload request is sent only after the store returned a created
\* attachment record; when registration fails (no created entity, or the
\* register call throws) the call ends there, without any upload, with a
\* failure result.
C2_NoUploadWithoutRegistration ==
    /\ \A i \in RequestsOf("upload") :
          \E j \in RequestsOf("register") : j < i /\ alog[j].outcome = "created"
    /\ \A j \in RequestsOf("register") :
          alog[j].outcome # "created" =>
             /\ RequestsOf("upload") = {}
             /\ apc = "done"
             /\ Returned(attres)
             /\ attres.success = FALSE

C2_Witness ==
    /\ apc = "done"
    /\ \E j \in RequestsOf("register") : alog[j].outcome = "none"
    /\ attres.success = FALSE

\* C3: once createItem's persist step returned a created item, createItem
\* returns success = TRUE with the key the store assigned, whatever happens
\* in the attachment step; an attachment failure shows only in the nested
\* pdf_attachment / snapshot_attachment result.
C3_CreatedItemKeyIsReturned ==
    (/\ apc = "done"
     /\ ain.op = "createItem"
     /\ \E i \in RequestsOf("post_item") : alog[i].outcome = "created")
    => /\ Returned(aresult)
       /\ aresult.success = TRUE
       /\ aresult.item_key = items[1].key

(***************************************************************************)
(* Properties of updateItem.                                               *)
(***************************************************************************)
UDone(c) == upc[c] = "done"

\* The outcome of call c's last request.
LastOutcome(c) == ulog[c][Len(ulog[c])].outcome

\* C4: a patch rejected because the item's version changed yields a result
\* that differs from the result of every call that failed by a transport
\* error or by another rejection of the store, whatever the texts of the
\* caught errors are.
C4_ConflictIsDistinct ==
    \A c \in Calls :
        (UDone(c) /\ LastOutcome(c) = "conflict") =>
            /\ uresult[c].success = FALSE
            /\ \A d \in Calls :
                  (UDone(d) /\ LastOutcome(d) \in {"throw", "reject", "notfound"})
                  => uresult[d] # uresult[c]

\* C5: a call sends one read and then at most one patch, the patch carries
\* the version that read returned, and a rejected patch is the call's last
\* request and makes it report failure.
C5_OneReadOnePatch ==
    \A c \in Calls :
        LET L == ulog[c]
        IN  /\ Len(L) <= 2
            /\ Len(L) >= 1 => L[1].req = "get"
            /\ Len(L) = 2 => /\ L[2].req = "patch"
                             /\ L[1].outcome = "ok"
                             /\ L[2].version = L[1].version
            /\ UDone(c) => /\ Len(L) >= 1
                           /\ LastOutcome(c) # "ok" => uresult[c].success = FALSE

C5_Witness ==
    /\ UDone(1)
    /\ Len(ulog[1]) = 2
    /\ ulog[1][2].outcome = "conflict"
    /\ ulog[1][2].version < item.version

\* C6: a call reports success only if nobody modified the item between its
\* read and its patch; so of two calls that read the same version at most
\* one succeeds, and no patch computed from a stale read is applied.
C6_SuccessOnlyIfUnmodified ==
    /\ \A c \in Calls :
          (UDone(c) /\ uresult[c].success) => ~usince[c]
    /\ \A c, d \in Calls :
          (c # d /\ UDone(c) /\ UDone(d) /\ uresult[c].success /\ uresult[d].success)
          => ulog[c][1].version # ulog[d][1].version

C6_Witness ==
    /\ UDone(1) /\ UDone(2)
    /\ Len(ulog[1]) = 2 /\ Len(ulog[2]) = 2
    /\ ulog[1][1].version = ulog[2][1].version
    /\ uresult[1].success
    /\ ~uresult[2].success /\ LastOutcome(2) = "conflict"
    /\ usince[2]

\* The patch requests call c sent.
PatchesOf(c) == {i \in 1..Len(ulog[c]) : ulog[c][i].req = "patch"}

\* C10: when changes.tags is given, the tags sent to the store are exactly
\* that list, whatever the current tags, add_tags and remove_tags are.
C10_ReplacementTagsSentAsGiven ==
    \A c \in Calls : \A i \in PatchesOf(c) :
        "tags" \in DOMAIN uchg[c] =>
            /\ "tags" \in DOMAIN ulog[c][i].patch
            /\ ulog[c][i].patch.tags = [k \in 1..Len(uchg[c].tags) |-> [tag |-> uchg[c].tags[k]]]

C10_Witness ==
    /\ PatchesOf(1) # {}
    /\ DOMAIN uchg[1] = {"tags", "add_tags", "remove_tags"}
    /\ uchg[1].tags = <<"x">>
    /\ uchg[1].add_tags = <<"y">>
    /\ uchg[1].remove_tags = <<"x">>
    /\ uread[1].data.tags = <<[tag |-> "y"], [tag |-> "x"]>>
    /\ ulog[1][2].patch.tags = <<[tag |-> "x"]>>

(***************************************************************************)
(* Properties of getItemFulltext.                                          *)
(***************************************************************************)
\* The target is a parent item whose children were enumerated.
ChildrenEnumerated ==
    /\ fin.itemType # "attachment"
    /\ \E i \in 1..Len(flog) : flog[i].req = "children" /\ flog[i].outcome = "ok"

\* The child with key k, as the store holds it.
Child(k) == fin.children[k]

IsPdfChild(k) == Child(k).contentType = "application/pdf"

\* Child j is to be probed before child k: a PDF before a non-PDF, and the
\* store's order among two PDFs or two non-PDFs.
Before(j, k) ==
    \/ IsPdfChild(j) /\ ~IsPdfChild(k)
    \/ IsPdfChild(j) = IsPdfChild(k) /\ j < k

\* The children that are attachments carrying a content type.
ProbeCandidates ==
    {k \in 1..Len(fin.children) :
        Child(k).itemType = "attachment" /\ Child(k).contentType # ""}

\* C7: on a parent item the probes go to the PDF attachments first, then to
\* the other attachments, in the store's order within each group; probing
\* stops at the first attachment with content, whose content and key are
\* returned.
C7_PdfFirstStopAtFirstContent ==
    fin.itemType # "attachment" =>
        LET P == Probes
        IN  /\ \A i \in 1..Len(P) :
                  /\ P[i].key \in ProbeCandidates
                  /\ \A k \in ProbeCandidates :
                        Before(k, P[i].key) <=> \E j \in 1..(i - 1) : P[j].key = k
                  /\ i < Len(P) => P[i].outcome # "content"
            /\ \A i \in 1..Len(P) :
                  P[i].outcome = "content" =>
                     /\ fpc = "done"
                     /\ fresult.content = "text"
                     /\ fresult.attachment_key = P[i].key

C7_Witness ==
    /\ fpc = "done"
    /\ Len(fin.children) = 3
    /\ ~IsPdfChild(1) /\ 1 \in ProbeCandidates
    /\ IsPdfChild(2) /\ IsPdfChild(3)
    /\ Len(Probes) = 2
    /\ Probes[1].key = 2 /\ Probes[1].outcome = "404"
    /\ Probes[2].key = 3 /\ Probes[2].outcome = "content"
    /\ fresult.attachment_key = 3

\* C8: a parent item with no child attachment, or whose attachments all
\* yield no content, gives item_key, content = null and a message, and no
\* error field.
C8_AbsentContentIsNotAnError ==
    (/\ fpc = "done"
     /\ ChildrenEnumerated
     /\ \A i \in 1..Len(Probes) : Probes[i].outcome # "content")
    => /\ {"item_key", "content", "message"} \subseteq DOMAIN fresult
       /\ fresult.item_key = 0
       /\ fresult.content = Null
       /\ "error" \notin DOMAIN fresult

C8_Witness ==
    /\ fpc = "done"
    /\ ChildrenEnumerated
    /\ Len(Probes) = 2
    /\ Probes[1].outcome = "404" /\ Probes[2].outcome = "empty"
    /\ fresult.content = Null

ProbeFailures == {"non2xx", "throw", "badjson"}

\* C9: a transport, auth or non-2xx failure of one probe does not end the
\* resolution: the next attachment in the order is probed, a later
\* attachment's content is returned, and when every probe failed or was
\* empty all attachments were probed and the result is content = null
\* without error.
C9_ProbeFailureDoesNotAbort ==
    ChildrenEnumerated =>
        LET P == Probes
        IN  /\ \A i \in 1..Len(P) :
                  (P[i].outcome \in ProbeFailures /\ i < Cardinality(ProbeCandidates))
                  => (fpc = "probe" \/ Len(P) > i)
            /\ fpc = "done" =>
                  /\ "error" \notin DOMAIN fresult
                  /\ IF \E i \in 1..Len(P) : P[i].outcome = "content"
                     THEN fresult.content = "text"
                     ELSE /\ Len(P) = Cardinality(ProbeCandidates)
                          /\ fresult.content = Null

C9_Witness ==
    /\ fpc = "done"
    /\ Len(Probes) = 3
    /\ Probes[1].outcome = "throw"
    /\ Probes[2].outcome = "non2xx"
    /\ Probes[3].outcome = "content"
    /\ fresult.content = "text"
    /\ fresult.attachment_key = Probes[3].key

(***************************************************************************)
(* updateItem: merging tags and collections.                               *)
(***************************************************************************)
Range(list) == {list[i] : i \in 1..Len(list)}

\* changes[key] as a set, empty when the key is not given.
Given(changes, key) == IF key \in DOMAIN changes THEN Range(changes[key]) ELSE {}

\* C11: when the changes hold no replacement tag list, the tags of the patch
\* are, as a set, (the tags read, plus add_tags) minus remove_tags; with
\* neither add_tags nor remove_tags the patch has no tags key. Once the item
\* was read the patch is always sent: merging never fails the call. An
\* accepted patch leaves the item with exactly that tag set.
C11_TagsMergeIsUnionMinusRemovals ==
    LET ch == uchg[1]
        merged == (Range(FromTagObjects(uread[1].data.tags)) \cup Given(ch, "add_tags"))
                  \ Given(ch, "remove_tags")
    IN  ("tags" \notin DOMAIN ch /\ UDone(1) /\ ulog[1][1].outcome = "ok") =>
            /\ Len(ulog[1]) = 2
            /\ LET sent == ulog[1][2]
               IN  /\ sent.req = "patch"
                   /\ IF {"add_tags", "remove_tags"} \cap DOMAIN ch = {}
                      THEN "tags" \notin DOMAIN sent.patch
                      ELSE /\ "tags" \in DOMAIN sent.patch
                           /\ Range(FromTagObjects(sent.patch.tags)) = merged
                   /\ (sent.outcome = "ok" /\ item.version = sent.version + 1
                       /\ {"add_tags", "remove_tags"} \cap DOMAIN ch # {})
                        => Range(FromTagObjects(item.data.tags)) = merged

\* A tag both added and removed, a present tag added, an absent tag removed:
\* the accepted patch holds the original tag alone.
C11_Witness ==
    /\ UDone(1) /\ PatchesOf(1) # {}
    /\ uresult[1].success
    /\ uchg[1] = [add_tags |-> <<"x", "y">>, remove_tags |-> <<"y">>]
    /\ uread[1].data.tags = <<[tag |-> "x"]>>
    /\ item.data.tags = <<[tag |-> "x"]>>

\* C12: collections follow the same modes: a replacement list is sent as
\* given whatever add_collections and remove_collections hold; otherwise the
\* collections of the patch are, as a set, (the membership read, plus
\* add_collections) minus remove_collections, and with none of the three
\* keys the patch has no collections key.
C12_CollectionsFollowTheThreeModes ==
    LET ch == uchg[1]
        merged == (Range(uread[1].data.collections) \cup Given(ch, "add_collections"))
                  \ Given(ch, "remove_collections")
    IN  \A i \in 1..Len(ulog[1]) :
            ulog[1][i].req = "patch" =>
                LET patch == ulog[1][i].patch
                IN  IF "collections" \in DOMAIN ch
                    THEN /\ "collections" \in DOMAIN patch
                         /\ patch.collections = ch.collections
                    ELSE IF {"add_collections", "remove_collections"} \cap DOMAIN ch = {}
                    THEN "collections" \notin DOMAIN patch
                    ELSE /\ "collections" \in DOMAIN patch
                         /\ Range(patch.collections) = merged

\* An item in C1 is added to C2 and removed from C1: the accepted patch
\* leaves it in C2 alone.
C12_Witness ==
    /\ UDone(1) /\ PatchesOf(1) # {}
    /\ uresult[1].success
    /\ uchg[1] = [add_collections |-> <<"C2">>, remove_collections |-> <<"C1">>]
    /\ uread[1].data.collections = <<"C1">>
    /\ item.data.collections = <<"C2">>

(***************************************************************************)
(* Properties of getLibraryStats.                                          *)
(***************************************************************************)
\* The queries whose request failed.
FailedQueries == {q \in Queries : sq[q] # Pending /\ sq[q].request = "throw"}

\* C14: when the request of any of the three queries failed, the call
\* returns an error result, never a summary.
C14_StatsAllOrNothing ==
    (spc = "done" /\ FailedQueries # {}) => DOMAIN sresult = {"error"}

(***************************************************************************)
(* Properties of createItem and of the exported operations.                *)
(***************************************************************************)
\* The store accepted every request of the log.
Accepted(log) == \A i \in 1..Len(log) : log[i].outcome \in {"ok", "created"}

\* C13: against a store that accepts the requests, createItem with type
\* "article", title "T", authors ["Jane Doe"] and tags ["x"] returns
\* success = true and a key, and the updateItem that follows with
\* add_tags = ["y"], remove_tags = ["x"] leaves the item with the tag set
\* {"y"}.
C13_CreateThenUpdateEndToEnd ==
    (ain.params = ArticleParams /\ ~Truthy(ain.pdfUrl) /\ ~Truthy(ain.snapshotUrl)) =>
        /\ (apc = "done" /\ Accepted(alog)) =>
              /\ aresult.success = TRUE
              /\ aresult.item_key >= 1
              /\ items[aresult.item_key].data.tags = <<[tag |-> "x"]>>
        /\ (UDone(1) /\ Accepted(ulog[1])) =>
              /\ Len(ulog[1]) = 2
              /\ uresult[1].success = TRUE
              /\ Range(FromTagObjects(item.data.tags)) = {"y"}

C13_Witness ==
    /\ ain.params = ArticleParams /\ ~Truthy(ain.pdfUrl) /\ ~Truthy(ain.snapshotUrl)
    /\ UDone(1) /\ Accepted(ulog[1])
    /\ aresult.item_key = 1
    /\ items[1].data.itemType = "journalArticle"
    /\ item.version = 2
    /\ item.data.tags = <<[tag |-> "y"]>>

\* C15: no operation lets an exception escape: whatever the store and the
\* source answer and whatever the URL, the call returns a result.
C15_NoExceptionEscapes ==
    apc = "done" => "threw" \notin DOMAIN aresult

\* The requests of the attachment functions.
AttachRequests == {i \in 1..Len(alog) : alog[i].req \in {"fetch", "register", "upload"}}

\* C16: when the template request fails, createItem returns success = false
\* with an error made of the canonical type name and the message of the
\* failure; it sends no request after the template request, creates no
\* record and calls no attachment function.
C16_TemplateFailureStopsCreateItem ==
    \A i \in RequestsOf("template") :
        alog[i].outcome # "ok" =>
            /\ apc = "done"
            /\ aresult.success = FALSE
            /\ aresult.error.zoteroType = resolveItemType(ItemTypeOf(ain.params))
            /\ "message" \in DOMAIN aresult.error
            /\ aresult.error.message = TemplateErrMessage(alog[i].outcome)
            /\ Len(alog) = 1
            /\ items = <<>>
            /\ aloc.kind = ""
            /\ attres = NoResult

\* The template request for "article" fails: the error names
\* journalArticle and carries the message.
C16_Witness ==
    /\ apc = "done"
    /\ ain.params = ArticleParams
    /\ Truthy(ain.pdfUrl)
    /\ alog = <<[req |-> "template", outcome |-> "throw"]>>
    /\ aresult.error.zoteroType =
          [string |-> <<"j", "o", "u", "r", "n", "a", "l", "A", "r", "t", "i", "c", "l", "e">>]
    /\ aresult.error.message = "fetch failed"

\* C17: createItem calls at most one attachment function, only after the
\* store created the item, and for the key of that item; when pdfUrl is
\* given the function is the PDF one and the result never holds a snapshot
\* attachment, whether the PDF attachment succeeded or not.
C17_OneAttachmentAfterPersist ==
    ain.op = "createItem" =>
        LET created == {i \in RequestsOf("post_item") : alog[i].outcome = "created"}
        IN  /\ (aloc.kind # "" \/ AttachRequests # {}) =>
                  /\ created # {}
                  /\ items[1].itemType = "item"
                  /\ aloc.itemKey = items[1].key
            /\ \A i \in AttachRequests :
                  /\ \E j \in created : j < i
                  /\ alog[i].parentItem = items[1].key
                  /\ alog[i].kind = aloc.kind
            /\ Cardinality(RequestsOf("fetch")) <= 1
            /\ Cardinality(RequestsOf("register")) <= 1
            /\ Cardinality(RequestsOf("upload")) <= 1
            /\ \A k \in 2..Len(items) : items[k].parentItem = items[1].key
            /\ Truthy(ain.pdfUrl) =>
                  /\ aloc.kind \in {"", "pdf"}
                  /\ "snapshot_attachment" \notin DOMAIN aresult
            /\ (~Truthy(ain.pdfUrl) /\ Truthy(ain.snapshotUrl)) =>
                  /\ aloc.kind \in {"", "snapshot"}
                  /\ "pdf_attachment" \notin DOMAIN aresult
            /\ (~Truthy(ain.pdfUrl) /\ ~Truthy(ain.snapshotUrl)) =>
                  /\ aloc.kind = ""
                  /\ AttachRequests = {}

\* Both sources given, the PDF download fails: the call is over and the
\* snapshot was not tried.
C17_Witness ==
    /\ ain.op = "createItem"
    /\ Truthy(ain.pdfUrl) /\ Truthy(ain.snapshotUrl)
    /\ apc = "done"
    /\ "pdf_attachment" \in DOMAIN aresult
    /\ aresult.pdf_attachment.success = FALSE
    /\ aresult.success = TRUE
    /\ Cardinality(RequestsOf("fetch")) = 1

(***************************************************************************)
(* Properties of resolveItemType and unwrapUrl.                            *)
(***************************************************************************)
\* s is name with some of its letters in upper case.
CaseVariant(s, name) ==
    /\ Len(s) = Len(name)
    /\ \A i \in 1..Len(name) :
          \/ s[i] = name[i]
          \/ \E k \in 1..Len(LowerLetters) :
                LowerLetters[k] = name[i] /\ UpperLetters[k] = s[i]

\* C18: for each of the 18 friendly names, every upper/lower-case spelling
\* resolves to the canonical type of the name, and resolving that canonical
\* type again returns it unchanged.
C18_ResolveCaseInsensitiveIdempotent ==
    \A name \in DOMAIN ITEM_TYPE_MAP :
        CaseVariant(pin, name) =>
            /\ Len(pout) >= 1 => pout[1] = [string |-> ITEM_TYPE_MAP[name]]
            /\ Len(pout) = 2 => pout[2] = pout[1]

\* "ArTiClE" resolved twice gives journalArticle both times.
C18_Witness ==
    /\ pin = <<"A", "r", "T", "i", "C", "l", "E">>
    /\ pout = <<[string |-> <<"j", "o", "u", "r", "n", "a", "l", "A", "r", "t", "i", "c", "l", "e">>],
                [string |-> <<"j", "o", "u", "r", "n", "a", "l", "A", "r", "t", "i", "c", "l", "e">>]>>

\* C19: a type name whose lower-cased form is no friendly name is returned
\* unchanged: the same characters in the same case.
C19_UnknownNamesPassThrough ==
    (ppc \in {"again", "done"} /\ Len(pout) >= 1
     /\ toLowerCase(pin) \notin DOMAIN ITEM_TYPE_MAP) =>
        pout[1] = [string |-> pin]

\* C20: unwrapUrl returns a string for every input and never throws; an
\* input that is no URL is returned unchanged.
C20_UnwrapUrlIsTotal ==
    (ppc = "done" /\ Len(pout) = 1 /\ "kind" \in DOMAIN pout[1]) =>
        /\ pout[1].kind \in {"raw", "inner"}
        /\ ~pin.parses => pout[1] = [kind |-> "raw", url |-> pin]

\* The value is an absolute http(s) URL.
IsAbsolute(value) == StartsWith(value, Http) \/ StartsWith(value, Https)

\* unwrapUrl returned, without throwing, for an input that parses.
Unwrapped == ppc = "done" /\ pin.parses /\ pout[1].kind # "throw"

\* C21: for a path with a wrapper signature and a url parameter holding the
\* encoding of an absolute http(s) URL, unwrapUrl returns that URL decoded
\* once: what searchParams.get("url") yields, escapes of the inner URL kept.
C21_WrapperInnerDecodedOnce ==
    (Unwrapped /\ WRAPPER_PATTERNS_test(pin.pathname)
     /\ IsAbsolute(searchParamsGet(pin.query, "url"))) =>
        pout[1] = [kind |-> "inner", str |-> searchParamsGet(pin.query, "url")]

\* C22: for an input that parses and whose candidate parameters are all
\* absent or hold values that decode to no absolute http(s) URL, unwrapUrl
\* returns the input unchanged.
C22_NoAbsoluteCandidateUnchanged ==
    (ppc = "done" /\ pin.parses
     /\ \A k \in 1..Len(URL_PARAM_NAMES) :
           ~IsAbsolute(searchParamsGet(pin.query, URL_PARAM_NAMES[k]))) =>
        pout[1] = [kind |-> "raw", url |-> pin]

\* The number of segments of the path that are not empty.
NonEmptySegments(pathname) == Cardinality({i \in 1..Len(pathname) : pathname[i] # ""})

\* C27: without a wrapper signature, an input whose path has fewer than two
\* non-empty segments is returned unchanged.
C27_ShortPathUnchanged ==
    (Unwrapped /\ ~WRAPPER_PATTERNS_test(pin.pathname)
     /\ NonEmptySegments(pin.pathname) < 2) =>
        pout[1] = [kind |-> "raw", url |-> pin]

(***************************************************************************)
(* Properties of createCollection.                                         *)
(***************************************************************************)
\* The positions of name that hold no white space.
Visible(name) == {i \in 1..Len(name) : name[i] \notin WhiteSpace}

\* name from its first to its last character that is no white space.
Trimmed(name) ==
    SubSeq(name, CHOOSE i \in Visible(name) : \A j \in Visible(name) : i <= j,
                 CHOOSE i \in Visible(name) : \A j \in Visible(name) : i >= j)

\* C23: a name that is empty or white space only yields success = false
\* with the "required" error and no request; for any other name the name
\* sent to the store, and reported back on success, is the trimmed name.
C23_CollectionNameRequiredAndTrimmed ==
    cpc \in {"post", "done"} =>
        IF Visible(cin.name) = {}
        THEN /\ clog = <<>>
             /\ cresult = [success |-> FALSE, error |-> <<"Collection name is required">>]
        ELSE /\ Len(clog) = 1
             /\ clog[1].data.name = Trimmed(cin.name)
             /\ (cpc = "done" /\ cresult.success) => cresult.name = Trimmed(cin.name)

\* " a " is created as "a".
C23_Witness ==
    /\ cpc = "done"
    /\ cin.name = <<" ", "a", "\t">>
    /\ clog[1].data.name = <<"a">>
    /\ cresult.success
    /\ cresult.name = <<"a">>

(***************************************************************************)
(* Properties of the Worker fetch handler.                                 *)
(***************************************************************************)
\* The request presented the configured token, in the path or in the header.
PresentedToken(request) ==
    /\ request.BEARER_TOKEN # ""
    /\ \/ /\ Len(request.pathname) >= 3
          /\ SubSeq(request.pathname, 1, 3) = <<"mcp", "t", request.BEARER_TOKEN>>
       \/ request.authorization = <<"Bearer ", request.BEARER_TOKEN>>

\* C24: a request reaches the MCP handler only when it presented the
\* configured token; every other request, the health check on "/" apart, is
\* answered 401.
C24_OnlyAuthenticatedRequestsForwarded ==
    ppc = "done" =>
        /\ pout[1].kind = "forward" => PresentedToken(pin)
        /\ (~PresentedToken(pin) /\ pin.pathname # <<"">>) =>
              (pout[1].kind = "response" /\ pout[1].status = 401)

(***************************************************************************)
(* Properties of the report after the upload.                              *)
(***************************************************************************)
\* C25: attachPdfFromUrl / attachSnapshot return success = TRUE only when
\* the upload response positively reported success; a response with no
\* determinable OK status is not reported as a successful attachment.
C25_SuccessOnlyOnPositiveUpload ==
    (apc = "done" /\ Returned(attres) /\ attres.success = TRUE) =>
        \E i \in RequestsOf("upload") : uploadOk(alog[i].outcome) = "true"

(***************************************************************************)
(* Properties of createItem's field mapping.                               *)
(***************************************************************************)
\* The fields createItem sets only when the template has them, with the
\* parameter each takes its value from.
ConditionalFields ==
    ("url" :> "url") @@ ("abstractNote" :> "abstract") @@ ("extra" :> "extra")
    @@ ("volume" :> "volume") @@ ("issue" :> "issue") @@ ("pages" :> "pages")
    @@ ("DOI" :> "doi")

VenueFields == <<"publicationTitle", "blogTitle", "websiteTitle">>

\* The template createItem fetched and the item it sent to the store.
FetchedTemplate == Templates[resolveItemType(ItemTypeOf(ain.params)).string]
SubmittedItem == items[1].data

\* C26: the submitted item has url, abstractNote, extra, volume, issue, pages,
\* DOI and a venue field (publicationTitle, else blogTitle, else
\* websiteTitle) only if the fetched template declares the field; a value
\* given for an undeclared field adds nothing; title is always set.
C26_FieldsOnlyWhereTemplateDeclares ==
    (ain.op = "createItem" /\ items # <<>>) =>
        /\ "title" \in DOMAIN SubmittedItem /\ SubmittedItem.title = ain.params.title
        /\ \A f \in DOMAIN ConditionalFields :
              /\ f \in DOMAIN SubmittedItem => f \in DOMAIN FetchedTemplate
              /\ (f \in DOMAIN FetchedTemplate /\ Has(ain.params, ConditionalFields[f])) =>
                    SubmittedItem[f] = ain.params[ConditionalFields[f]]
        /\ \A i \in 1..3 :
              /\ VenueFields[i] \in DOMAIN SubmittedItem =>
                    VenueFields[i] \in DOMAIN FetchedTemplate
              /\ (/\ VenueFields[i] \in DOMAIN FetchedTemplate
                  /\ Has(ain.params, "publication")) =>
                    SubmittedItem[VenueFields[i]] =
                       (IF \E j \in 1..(i - 1) : VenueFields[j] \in DOMAIN FetchedTemplate
                        THEN FetchedTemplate[VenueFields[i]]
                        ELSE ain.params.publication)
        /\ DOMAIN SubmittedItem = DOMAIN FetchedTemplate \cup {"title"}
              \cup (IF Has(ain.params, "date") THEN {"date"} ELSE {})

\* A note is created from parameters that give every optional field: the
\* item sent has the note template's fields, title and date, nothing else.
C26_Witness ==
    /\ apc = "done"
    /\ ain.params = NoteParams
    /\ items # <<>>
    /\ DOMAIN SubmittedItem = {"itemType", "note", "tags", "collections", "title", "date"}

(***************************************************************************)
(* Properties of getItemFulltext on a target that is an attachment.        *)
(***************************************************************************)
FRequestsOf(req) == {i \in 1..Len(flog) : flog[i].req = req}

\* C28: when the target is itself an attachment, the only fulltext request
\* is the one for the target and the children are never requested; when that
\* request gives no content (empty, 404, other status, unreadable body,
\* transport error, at the status or while the body is read) the result has
\* content = null, the attachment's content
\* type, a filename and a message, and no error field.
C28_AttachmentTargetQueriedDirectly ==
    fin.itemType = "attachment" =>
        /\ FRequestsOf("children") = {}
        /\ Cardinality(FRequestsOf("fulltext")) <= 1
        /\ \A i \in FRequestsOf("fulltext") :
              /\ flog[i].key = 0
              /\ IF flog[i].outcome = "200" THEN fpc = "direct_body" ELSE fpc = "done"
              /\ flog[i].outcome \notin {"content", "200"} =>
                    /\ DOMAIN fresult =
                          {"item_key", "content", "contentType", "filename", "message"}
                    /\ fresult.content = Null
                    /\ fresult.contentType = fin.contentType
                    /\ fin.filename # "" => fresult.filename = fin.filename
                    /\ fresult.filename # ""

\* The fulltext request for an HTML attachment ends in a transport error.
C28_Witness ==
    /\ fpc = "done"
    /\ fin.itemType = "attachment" /\ fin.contentType = "text/html"
    /\ \E i \in FRequestsOf("fulltext") : flog[i].outcome = "throw"
    /\ fresult.content = Null
    /\ "error" \notin DOMAIN fresult

(***************************************************************************)
(* Properties of the patch updateItem sends.                               *)
(***************************************************************************)
\* The item fields a changes object names.
NamedFields(changes) ==
    (IF "title" \in DOMAIN changes THEN {"title"} ELSE {})
    \cup (IF "abstract" \in DOMAIN changes THEN {"abstractNote"} ELSE {})
    \cup (IF "date" \in DOMAIN changes THEN {"date"} ELSE {})
    \cup (IF "extra" \in DOMAIN changes THEN {"extra"} ELSE {})
    \cup (IF DOMAIN changes \cap {"tags", "add_tags", "remove_tags"} # {}
          THEN {"tags"} ELSE {})
    \cup (IF DOMAIN changes \cap {"collections", "add_collections", "remove_collections"} # {}
          THEN {"collections"} ELSE {})

\* C29: the patch of updateItem has a key only for a field named in the
\* changes, and an accepted patch leaves every other field of the item as
\* it was read.
C29_PatchIsMinimal ==
    \A i \in PatchesOf(1) :
        /\ DOMAIN ulog[1][i].patch \subseteq NamedFields(uchg[1])
        /\ ulog[1][i].outcome = "ok" =>
              /\ DOMAIN item.data \subseteq DOMAIN uread[1].data \cup NamedFields(uchg[1])
              /\ \A f \in DOMAIN uread[1].data \ NamedFields(uchg[1]) :
                    item.data[f] = uread[1].data[f]

\* Only the date is changed on an item that has every field.
C29_Witness ==
    /\ PatchesOf(1) # {}
    /\ uresult[1].success
    /\ uchg[1] = [date |-> "new"]
    /\ uread[1].data = FullItemData
    /\ item.data = [FullItemData EXCEPT !.date = "new"]

(***************************************************************************)
(* Properties of the order of download, registration and upload.           *)
(***************************************************************************)
\* C30: a register or upload request is sent only after the download gave an
\* OK response and its body was read and is not empty; while the body is
\* awaited nothing is registered; after a download that gave a non-2xx
\* status, an empty body or an error, the call is over with a failure and
\* the store holds no attachment record; the download, the registration and
\* the upload are each requested at most once in a call.
C30_RegisterOnlyAfterDownload ==
    /\ \A i \in RequestsOf("register") \cup RequestsOf("upload") :
          \E j \in RequestsOf("fetch") : j < i /\ alog[j].outcome = "ok"
    /\ \A j \in RequestsOf("fetch") :
          alog[j].outcome # "ok" =>
             /\ RequestsOf("register") \cup RequestsOf("upload") = {}
             /\ \A k \in 1..Len(items) : items[k].itemType # "attachment"
             /\ IF alog[j].outcome = "headers"
                THEN apc = "body"
                ELSE apc = "done" /\ attres.success = FALSE
    /\ \A r \in {"fetch", "register", "upload"} : Cardinality(RequestsOf(r)) <= 1

\* A snapshot whose page comes back empty: the call ends after the download.
C30_Witness ==
    /\ apc = "done"
    /\ ain.op = "attachSnapshot"
    /\ \E j \in RequestsOf("fetch") : alog[j].outcome = "empty"
    /\ RequestsOf("register") = {}
    /\ items = <<ParentItem>>

====
